---- MODULE Spec2Model ----
(***************************************************************************)
(* TDD-AUTOGEN: the turn scheduler of the group chat (app/main.py), the    *)
(* run state (app/state.py) and the generation roles (app/agents).         *)
(*                                                                         *)
(* Python strings are sequences of one-character strings, so that `in`,    *)
(* find, split, strip and slicing are computed as Python computes them.    *)
(* TLA+ string literals cannot hold a backquote: the character is written  *)
(* "BACKTICK".                                                             *)
(***************************************************************************)
EXTENDS Integers, Sequences, FiniteSets, TLC

(***************************************************************************)
(* String primitives.                                                      *)
(***************************************************************************)

\* s[a:b] of Python for 0 <= a, b (0-based, end exclusive, clipped to len(s)).
Slice(s, a, b) ==
    LET hi == IF b > Len(s) THEN Len(s) ELSE b
    IN  IF a >= hi THEN <<>> ELSE SubSeq(s, a + 1, hi)

\* s.startswith(p)
StartsWith(s, p) ==
    /\ Len(p) <= Len(s)
    /\ SubSeq(s, 1, Len(p)) = p

\* the 0-based positions at which p occurs in s
Occurrences(s, p) ==
    {i \in 0..(Len(s) - Len(p)) : SubSeq(s, i + 1, i + Len(p)) = p}

\* p in s
Contains(s, p) ==
    \E i \in 0..(Len(s) - Len(p)) : SubSeq(s, i + 1, i + Len(p)) = p

\* s.find(p): the first position of p in s, -1 when there is none
Find(s, p) ==
    LET at == Occurrences(s, p)
    IN  IF at = {} THEN -1 ELSE CHOOSE i \in at : \A j \in at : i <= j

(***************************************************************************)
(* Literals of the source.                                                 *)
(***************************************************************************)
\* 'TERMINATE'
TERMINATE ==
    <<"T", "E", "R", "M", "I", "N", "A", "T", "E">>
\* '```python'
PYTHON_BLOCK ==
    <<"BACKTICK", "BACKTICK", "BACKTICK", "p", "y", "t", "h", "o", "n">>
\* 'test_app.py'
TEST_FILE ==
    <<"t", "e", "s", "t", "_", "a", "p", "p", ".", "p", "y">>
\* 'app_code'
IMPLEMENTATION_MODULE ==
    <<"a", "p", "p", "_", "c", "o", "d", "e">>
\* 'exitcode:'
EXITCODE ==
    <<"e", "x", "i", "t", "c", "o", "d", "e", ":">>
\* 'FAILED'
FAILED ==
    <<"F", "A", "I", "L", "E", "D">>
\* 'PASSED'
PASSED ==
    <<"P", "A", "S", "S", "E", "D">>
\* 'ERROR'
ERROR ==
    <<"E", "R", "R", "O", "R">>
\* 'Implemente uma solucao TDD para: '
REQUEST_PREFIX ==
    <<"I", "m", "p", "l", "e", "m", "e", "n", "t", "e", " ", "u", "m", "a", " ", "s", "o", "l",
      "u", "c", "a", "o", " ", "T", "D", "D", " ", "p", "a", "r", "a", ":", " ">>
\* 'Execute os testes:\n```sh\npytest workspace/test_app.py -v\n```'
RUN_PYTEST_REPLY ==
    <<"E", "x", "e", "c", "u", "t", "e", " ", "o", "s", " ", "t", "e", "s", "t", "e", "s", ":",
      "\n", "BACKTICK", "BACKTICK", "BACKTICK", "s", "h", "\n", "p", "y", "t", "e", "s", "t",
      " ", "w", "o", "r", "k", "s", "p", "a", "c", "e", "/", "t", "e", "s", "t", "_", "a", "p",
      "p", ".", "p", "y", " ", "-", "v", "\n", "BACKTICK", "BACKTICK", "BACKTICK">>
\* 'def'
DEF_KEYWORD ==
    <<"d", "e", "f">>
\* 'test_'
TEST_ ==
    <<"t", "e", "s", "t", "_">>
\* 'from'
FROM ==
    <<"f", "r", "o", "m">>
\* 'import'
IMPORT ==
    <<"i", "m", "p", "o", "r", "t">>
\* 'pytest'
PYTEST ==
    <<"p", "y", "t", "e", "s", "t">>
\* '@pytest.fixture'
FIXTURE ==
    <<"@", "p", "y", "t", "e", "s", "t", ".", "f", "i", "x", "t", "u", "r", "e">>
\* '"""'
DQ3 ==
    <<"\"", "\"", "\"">>
\* "'''"
SQ3 ==
    <<"'", "'", "'">>

(***************************************************************************)
(* Config (app/config.py).                                                 *)
(***************************************************************************)
MAX_ITERATIONS == 5

\* GroupChat(max_round=25)
max_round == 25

\* run(): self.groupchat.messages[-10:]
last_messages_window == 10

\* "exitcode: 0"
EXITCODE_0 ==
    EXITCODE \o <<" ", "0">>

\* f"{Config.IMPLEMENTATION_MODULE}.py"
IMPLEMENTATION_FILE ==
    IMPLEMENTATION_MODULE \o <<".", "p", "y">>

(***************************************************************************)
(* The agents of the group chat (TDDOrchestrator.__init__).                *)
(***************************************************************************)
Agents ==
    {"Executor", "Planner", "Tester", "Developer", "Reviewer"}

\* custom_speaker_selection ending the chat where no branch matches.
custom_speaker_selection_default_none(no_messages, speaker_name, content) ==
    IF no_messages THEN "Planner"
    ELSE IF speaker_name = "Planner" THEN "Tester"
    ELSE IF speaker_name = "Tester" /\ Contains(content, PYTHON_BLOCK) THEN "Executor"
    ELSE IF /\ speaker_name = "Executor"
            /\ Contains(content, TEST_FILE)
            /\ Contains(content, EXITCODE_0) THEN "Developer"
    ELSE IF speaker_name = "Developer" /\ Contains(content, PYTHON_BLOCK) THEN "Executor"
    ELSE IF /\ speaker_name = "Executor"
            /\ Contains(content, IMPLEMENTATION_FILE)
            /\ Contains(content, EXITCODE_0) THEN "Executor"
    ELSE IF /\ Contains(content, EXITCODE)
            /\ \/ Contains(content, FAILED)
               \/ Contains(content, PASSED)
               \/ Contains(content, ERROR) THEN "Reviewer"
    ELSE IF speaker_name = "Reviewer"
         THEN IF Contains(content, TERMINATE) THEN "None" ELSE "Developer"
    ELSE "None"

\* The turn scheduler. no_messages is `not groupchat.messages`, speaker_name
\* is last_speaker.name or "None", content is the content of messages[-1].
\* The result is an agent's name, "None" (the chat ends) or "auto" (the
\* manager chooses).
custom_speaker_selection(no_messages, speaker_name, content) ==
    IF no_messages THEN "Planner"
    ELSE IF speaker_name = "Planner" THEN "Tester"
    ELSE IF speaker_name = "Tester" /\ Contains(content, PYTHON_BLOCK) THEN "Executor"
    ELSE IF /\ speaker_name = "Executor"
            /\ Contains(content, TEST_FILE)
            /\ Contains(content, EXITCODE_0) THEN "Developer"
    ELSE IF speaker_name = "Developer" /\ Contains(content, PYTHON_BLOCK) THEN "Executor"
    ELSE IF /\ speaker_name = "Executor"
            /\ Contains(content, IMPLEMENTATION_FILE)
            /\ Contains(content, EXITCODE_0) THEN "Executor"
    ELSE IF /\ Contains(content, EXITCODE)
            /\ \/ Contains(content, FAILED)
               \/ Contains(content, PASSED)
               \/ Contains(content, ERROR) THEN "Reviewer"
    ELSE IF speaker_name = "Reviewer"
         THEN IF Contains(content, TERMINATE) THEN "None" ELSE "Developer"
    ELSE "auto"

(***************************************************************************)
(* Messages the roles can produce.                                         *)
(***************************************************************************)
\* 'Plano de TDD: testar add'
MsgPlan ==
    <<"P", "l", "a", "n", "o", " ", "d", "e", " ", "T", "D", "D", ":", " ", "t", "e", "s", "t",
      "a", "r", " ", "a", "d", "d">>
\* 'ok'
MsgPlain ==
    <<"o", "k">>
\* '```python\nprint(1)\n```'
MsgCodeBlock ==
    <<"BACKTICK", "BACKTICK", "BACKTICK", "p", "y", "t", "h", "o", "n", "\n", "p", "r", "i",
      "n", "t", "(", "1", ")", "\n", "BACKTICK", "BACKTICK", "BACKTICK">>
\* 'exitcode: 0\ntest_app.py criado'
MsgTestsCreated ==
    <<"e", "x", "i", "t", "c", "o", "d", "e", ":", " ", "0", "\n", "t", "e", "s", "t", "_",
      "a", "p", "p", ".", "p", "y", " ", "c", "r", "i", "a", "d", "o">>
\* 'exitcode: 0\napp_code.py criado'
MsgCodeCreated ==
    <<"e", "x", "i", "t", "c", "o", "d", "e", ":", " ", "0", "\n", "a", "p", "p", "_", "c",
      "o", "d", "e", ".", "p", "y", " ", "c", "r", "i", "a", "d", "o">>
\* 'exitcode: 1\ntest_app.py::test_add FAILED'
MsgPytestFailed ==
    <<"e", "x", "i", "t", "c", "o", "d", "e", ":", " ", "1", "\n", "t", "e", "s", "t", "_",
      "a", "p", "p", ".", "p", "y", ":", ":", "t", "e", "s", "t", "_", "a", "d", "d", " ", "F",
      "A", "I", "L", "E", "D">>
\* 'exitcode: 0\ntest_app.py::test_add PASSED'
MsgPytestPassed ==
    <<"e", "x", "i", "t", "c", "o", "d", "e", ":", " ", "0", "\n", "t", "e", "s", "t", "_",
      "a", "p", "p", ".", "p", "y", ":", ":", "t", "e", "s", "t", "_", "a", "d", "d", " ", "P",
      "A", "S", "S", "E", "D">>
\* 'exitcode: 1\nERROR'
MsgExecError ==
    <<"e", "x", "i", "t", "c", "o", "d", "e", ":", " ", "1", "\n", "E", "R", "R", "O", "R">>
\* 'corrigir add'
MsgReview ==
    <<"c", "o", "r", "r", "i", "g", "i", "r", " ", "a", "d", "d">>
\* 'Codigo aprovado. TERMINATE'
MsgTerminate ==
    <<"C", "o", "d", "i", "g", "o", " ", "a", "p", "r", "o", "v", "a", "d", "o", ".", " ", "T",
      "E", "R", "M", "I", "N", "A", "T", "E">>
\* 'exitcode: 0, 1 PASSED\nTERMINATE'
MsgReviewQuote ==
    <<"e", "x", "i", "t", "c", "o", "d", "e", ":", " ", "0", ",", " ", "1", " ", "P", "A", "S",
      "S", "E", "D", "\n", "T", "E", "R", "M", "I", "N", "A", "T", "E">>
\* 'exitcode: 1, 1 FAILED: corrigir'
MsgReviewQuoteFail ==
    <<"e", "x", "i", "t", "c", "o", "d", "e", ":", " ", "1", ",", " ", "1", " ", "F", "A", "I",
      "L", "E", "D", ":", " ", "c", "o", "r", "r", "i", "g", "i", "r">>
\* 'Plano de TDD: TERMINATE'
MsgPlanTerminate ==
    <<"P", "l", "a", "n", "o", " ", "d", "e", " ", "T", "D", "D", ":", " ", "T", "E", "R", "M",
      "I", "N", "A", "T", "E">>
\* 'funcao add(a, b)'
SpecAdd ==
    <<"f", "u", "n", "c", "a", "o", " ", "a", "d", "d", "(", "a", ",", " ", "b", ")">>
\* 'funcao que imprime TERMINATE'
SpecSentinel ==
    <<"f", "u", "n", "c", "a", "o", " ", "q", "u", "e", " ", "i", "m", "p", "r", "i", "m", "e",
      " ", "T", "E", "R", "M", "I", "N", "A", "T", "E">>

(***************************************************************************)
(* The run state (app/state.py).                                           *)
(***************************************************************************)

\* TDDState.__init__
TDDState(specification) ==
    [specification  |-> specification,
     tests          |-> <<>>,
     code           |-> <<>>,
     feedback       |-> <<>>,
     status         |-> "",
     iteration      |-> 0,
     test_phase     |-> "red",
     previous_tests |-> <<>>]

\* StateManager.update: valid_keys
valid_keys ==
    {"specification", "tests", "code", "feedback",
     "status", "iteration", "test_phase", "previous_tests"}

\* TDDState.update: setattr for every key that is an attribute
TDDState_update(st, updates) ==
    [k \in DOMAIN st |-> IF k \in DOMAIN updates THEN updates[k] ELSE st[k]]

\* StateManager.update(**kwargs); kwargs is a function from keys to values
update(st, kwargs) ==
    LET validated_updates ==
            [k \in (DOMAIN kwargs) \cap valid_keys |-> kwargs[k]]
    IN  IF DOMAIN validated_updates = {} THEN st
        ELSE TDDState_update(st, validated_updates)

\* StateManager.update(**kwargs) as Python binds the call: the keyword `self`
\* collides with the method's own first parameter before the body runs
StateManager_update(st, kwargs) ==
    IF "self" \in DOMAIN kwargs
    THEN [state |-> st, raised |-> "TypeError"]
    ELSE [state |-> update(st, kwargs), raised |-> "None"]

\* the attributes of a TDDState object that are no data fields: its methods
TDDState_methods ==
    {"to_dict", "update"}

\* the bound method getattr returns for the name of a method
bound_method(name) ==
    [bound_method |-> name]

\* StateManager.get: getattr(self.state, key, default)
get(st, key, default) ==
    IF key \in DOMAIN st THEN st[key]
    ELSE IF key \in TDDState_methods THEN bound_method(key)
    ELSE default

(***************************************************************************)
(* State of the model.                                                     *)
(***************************************************************************)
VARIABLES
    pc,            \* position of run(): "start", "chat", "check", "report", "done"
    state,         \* the TDDState of the run's StateManager
    nmsgs,         \* len(groupchat.messages)
    last_msg,      \* groupchat.messages[-1]: [name, content]
    term_age,      \* messages since the latest one holding TERMINATE (capped)
    auto_replies,  \* the Executor's consecutive auto-reply counter
    ended,         \* how the chat ended: "", "no_speaker", "max_round", "no_reply", "fault"
    reports,       \* number of final reports printed
    report,        \* the latest final report: what _print_final_report logged
    cyc,           \* history: progress of the current refactor cycle
    cycles,        \* history: completed WRITE_CODE -> EXECUTE_TESTS -> REVIEW cycles
    all_failed,    \* history: no execution result so far was a passing one
    reviewer_sentinel, \* history: a message of the Reviewer held TERMINATE
    sel_in,        \* scheduler under test: its arguments
    sel_out,       \* scheduler under test: its result, "pending" before the call
    test_file,     \* workspace/test_app.py: [exists, content]
    impl_file,     \* workspace/app_code.py: [exists, content]
    call           \* the latest call of a role under test, with the state before it

chatVars == <<nmsgs, last_msg, term_age, auto_replies, ended>>
histVars == <<cyc, cycles, all_failed, reviewer_sentinel>>
selVars == <<sel_in, sel_out>>
runVars == <<pc, state, reports, report>>
genVars == <<test_file, impl_file, call>>
vars == <<pc, state, reports, report, nmsgs, last_msg, term_age, auto_replies, ended,
          cyc, cycles, all_failed, reviewer_sentinel, sel_in, sel_out, test_file, impl_file,
          call>>

NoMessage == [name |-> "None", content |-> <<>>]

\* No final report was printed yet.
NoReport == [printed |-> FALSE]

\* Values of the variables a specification does not use.
IdleRun ==
    /\ pc = "idle"
    /\ state = TDDState(<<>>)
    /\ reports = 0
    /\ report = NoReport
IdleChat ==
    /\ nmsgs = 0
    /\ last_msg = NoMessage
    /\ term_age = last_messages_window
    /\ auto_replies = 0
    /\ ended = ""
IdleHist ==
    /\ cyc = "none"
    /\ cycles = 0
    /\ all_failed = TRUE
    /\ reviewer_sentinel = FALSE
IdleSel ==
    /\ sel_in = [no_messages |-> TRUE, speaker_name |-> "None", content |-> <<>>]
    /\ sel_out = "idle"

\* A file that does not exist.
Absent == [exists |-> FALSE, content |-> <<>>]

NoCall == [op |-> "none"]

IdleGen ==
    /\ test_file = Absent
    /\ impl_file = Absent
    /\ call = NoCall

(***************************************************************************)
(* SpecSel: custom_speaker_selection on every pair of a last speaker and a *)
(* message content.                                                        *)
(***************************************************************************)
SelContents ==
    {<<>>, MsgPlan, MsgPlain, MsgCodeBlock, MsgTestsCreated, MsgCodeCreated,
     MsgPytestFailed, MsgPytestPassed, MsgExecError, MsgReview, MsgTerminate,
     MsgReviewQuote, MsgReviewQuoteFail, MsgPlanTerminate, RUN_PYTEST_REPLY}

InitSel ==
    /\ IdleRun /\ IdleChat /\ IdleHist /\ IdleGen
    /\ sel_in \in [no_messages : BOOLEAN,
                   speaker_name : Agents \cup {"None"},
                   content : SelContents]
    /\ sel_out = "pending"

SelectSpeaker ==
    /\ sel_out = "pending"
    /\ sel_out' = custom_speaker_selection(sel_in.no_messages, sel_in.speaker_name,
                                           sel_in.content)
    /\ UNCHANGED <<sel_in, runVars, chatVars, histVars, genVars>>

NextSel == SelectSpeaker

SpecSel == InitSel /\ [][NextSel]_vars

(***************************************************************************)
(* Spec: TDDOrchestrator.run.  The group chat is the loop of the chat      *)
(* manager: a message is appended, then, unless max_round messages have    *)
(* been appended, the scheduler names the next speaker and that agent's    *)
(* reply is the next message.                                              *)
(***************************************************************************)

\* run(specification): the requirements a run can be started with
Specifications ==
    {SpecAdd, SpecSentinel}

\* What the language-model roles can answer.
Replies(agent) ==
    CASE agent = "Planner"   -> {MsgPlan}
      [] agent = "Tester"    -> {MsgCodeBlock, MsgPlain}
      [] agent = "Developer" -> {MsgCodeBlock, MsgPlain}
      [] agent = "Reviewer"  -> {MsgReview, MsgTerminate, MsgReviewQuote}

\* What the Executor can report after executing the code blocks it received.
ExecutionOutputs ==
    {MsgTestsCreated, MsgCodeCreated, MsgPytestFailed, MsgPytestPassed, MsgExecError}

\* UserProxyAgent(max_consecutive_auto_reply=10)
max_consecutive_auto_reply == 10

\* UserProxyAgent(is_termination_msg=lambda x: "TERMINATE" in x.get("content", ""))
is_termination_msg(content) ==
    Contains(content, TERMINATE)

\* _setup_executor.check_and_run_tests: TRUE when it answers (with
\* RUN_PYTEST_REPLY); test_file_exists is os.path.exists(test_file).
check_and_run_tests(no_messages, content, test_file_exists) ==
    /\ ~no_messages
    /\ Contains(content, IMPLEMENTATION_FILE)
    /\ Contains(content, EXITCODE_0)
    /\ test_file_exists

\* The scheduler's decision on the chat as it stands.
Selected ==
    custom_speaker_selection(nmsgs = 0, last_msg.name, last_msg.content)

\* The agents that may speak next: "auto" leaves the choice to the manager.
Candidates ==
    IF Selected = "auto" THEN Agents
    ELSE IF Selected = "None" THEN {}
    ELSE {Selected}

Min(a, b) == IF a < b THEN a ELSE b

\* An execution result that reports passing tests only.
PassingResult(content) ==
    /\ Contains(content, EXITCODE)
    /\ Contains(content, PASSED)
    /\ ~Contains(content, FAILED)
    /\ ~Contains(content, ERROR)

\* groupchat.append(message, speaker)
append(name, content) ==
    /\ nmsgs' = nmsgs + 1
    /\ last_msg' = [name |-> name, content |-> content]
    /\ term_age' = IF Contains(content, TERMINATE) THEN 0
                   ELSE Min(term_age + 1, last_messages_window)

\* run(): state = StateManager(specification)
Init ==
    /\ pc = "start"
    /\ \E specification \in Specifications : state = TDDState(specification)
    /\ reports = 0
    /\ report = NoReport
    /\ IdleChat /\ IdleHist /\ IdleSel /\ IdleGen

\* self.executor.initiate_chat(self.manager, message=f"...: {specification}")
InitiateChatStep ==
    /\ pc = "start"
    /\ append("Executor", REQUEST_PREFIX \o state.specification)
    /\ pc' = "chat"
    /\ UNCHANGED <<state, reports, report, auto_replies, ended, selVars, genVars>>

\* A language-model role is selected and replies.
AgentTurnStep ==
    /\ pc = "chat"
    /\ nmsgs < max_round
    /\ \E agent \in Candidates \ {"Executor"} :
        \E content \in Replies(agent) : append(agent, content)
    /\ UNCHANGED <<runVars, auto_replies, ended, selVars, genVars>>

\* The Executor is selected and replies: check_and_run_tests first, then the
\* termination check and the auto-reply limit, then the execution of the code.
ExecutorTurnStep ==
    /\ pc = "chat"
    /\ nmsgs < max_round
    /\ "Executor" \in Candidates
    /\ \E test_file_exists \in BOOLEAN :
        IF check_and_run_tests(nmsgs = 0, last_msg.content, test_file_exists)
        THEN /\ append("Executor", RUN_PYTEST_REPLY)
             /\ UNCHANGED auto_replies
        ELSE /\ ~is_termination_msg(last_msg.content)
             /\ auto_replies < max_consecutive_auto_reply
             /\ auto_replies' = auto_replies + 1
             /\ \E content \in ExecutionOutputs : append("Executor", content)
    /\ UNCHANGED <<runVars, ended, selVars, genVars>>

\* The Executor is selected and gives no reply: the chat is over.
ExecutorStopsStep ==
    /\ pc = "chat"
    /\ nmsgs < max_round
    /\ "Executor" \in Candidates
    /\ \E test_file_exists \in BOOLEAN :
        ~check_and_run_tests(nmsgs = 0, last_msg.content, test_file_exists)
    /\ \/ is_termination_msg(last_msg.content)
       \/ auto_replies >= max_consecutive_auto_reply
    /\ pc' = "check"
    /\ ended' = "no_reply"
    /\ UNCHANGED <<state, reports, report, nmsgs, last_msg, term_age, auto_replies,
                   selVars, genVars>>

\* The scheduler returns None: the chat is over.
NoSpeakerStep ==
    /\ pc = "chat"
    /\ nmsgs < max_round
    /\ Selected = "None"
    /\ pc' = "check"
    /\ ended' = "no_speaker"
    /\ UNCHANGED <<state, reports, report, nmsgs, last_msg, term_age, auto_replies,
                   selVars, genVars>>

\* max_round messages have been appended: the chat is over.
MaxRoundStep ==
    /\ pc = "chat"
    /\ nmsgs = max_round
    /\ pc' = "check"
    /\ ended' = "max_round"
    /\ UNCHANGED <<state, reports, report, nmsgs, last_msg, term_age, auto_replies,
                   selVars, genVars>>

\* run_except with the keyword misspelt: update drops the unknown key.
run_except_misspelt(st) ==
    update(st, [stauts |-> "error"])

\* run_except resetting the phase as well.
run_except_resets_phase(st) ==
    update(st, [status |-> "error", test_phase |-> "red"])

\* run(): except Exception: state.update(status="error")
run_except(st) ==
    update(st, [status |-> "error"])

\* An exception is raised inside a turn (speaker selection or a role's reply).
FaultStep ==
    /\ pc = "chat"
    /\ nmsgs < max_round
    /\ Candidates # {}
    /\ state' = run_except(state)
    /\ pc' = "report"
    /\ ended' = "fault"
    /\ UNCHANGED <<reports, report, nmsgs, last_msg, term_age, auto_replies, selVars, genVars>>

\* run(): any of self.groupchat.messages[-10:] contains TERMINATE
run_check(st, n, age) ==
    IF n > 0 /\ age < last_messages_window
    THEN update(st, [status |-> "passed"])
    ELSE st

\* run(): the scan of the last messages after initiate_chat returned.
CheckTerminateStep ==
    /\ pc = "check"
    /\ state' = run_check(state, nmsgs, term_age)
    /\ pc' = "report"
    /\ UNCHANGED <<reports, report, chatVars, selVars, genVars>>

\* _print_final_report: the lines it logs (status, number of chat messages,
\* paths of the implementation and of the tests, and the success banner).
_print_final_report(st, n) ==
    [printed        |-> TRUE,
     status         |-> get(st, "status", "unknown"),
     messages       |-> n,
     implementation |-> IMPLEMENTATION_FILE,
     tests          |-> TEST_FILE,
     success        |-> get(st, "status", "None") = "passed"]

\* run(): self._print_final_report(state); return state.state
FinalReportStep ==
    /\ pc = "report"
    /\ reports' = reports + 1
    /\ report' = _print_final_report(state, nmsgs)
    /\ pc' = "done"
    /\ UNCHANGED <<state, chatVars, selVars, genVars>>

\* The steps of run() as such: the history variables are not kept.
InitiateChat == InitiateChatStep /\ UNCHANGED histVars
AgentTurn == AgentTurnStep /\ UNCHANGED histVars
ExecutorTurn == ExecutorTurnStep /\ UNCHANGED histVars
ExecutorStops == ExecutorStopsStep /\ UNCHANGED histVars
NoSpeaker == NoSpeakerStep /\ UNCHANGED histVars
MaxRound == MaxRoundStep /\ UNCHANGED histVars
Fault == FaultStep /\ UNCHANGED histVars
CheckTerminate == CheckTerminateStep /\ UNCHANGED histVars
FinalReport == FinalReportStep /\ UNCHANGED histVars

Next ==
    \/ InitiateChat
    \/ AgentTurn
    \/ ExecutorTurn
    \/ ExecutorStops
    \/ NoSpeaker
    \/ MaxRound
    \/ Fault
    \/ CheckTerminate
    \/ FinalReport

Spec == Init /\ [][Next]_vars

(***************************************************************************)
(* SpecCycles: the same run, with the history of the refactor cycle        *)
(* WRITE_CODE -> EXECUTE_TESTS -> REVIEW recorded beside it: a cycle is a  *)
(* Developer message with a code block, then Executor messages, then a     *)
(* Reviewer message.                                                       *)
(* The runs are those of one requirement in which no exception is raised.  *)
(***************************************************************************)

InitCycles ==
    /\ pc = "start"
    /\ state = TDDState(SpecAdd)
    /\ reports = 0
    /\ report = NoReport
    /\ IdleChat /\ IdleHist /\ IdleSel /\ IdleGen

\* The history after a step: it changes when a message was appended.
Track ==
    IF nmsgs' = nmsgs THEN UNCHANGED histVars
    ELSE LET name == last_msg'.name
             content == last_msg'.content
         IN  /\ cyc' = CASE name = "Developer" /\ Contains(content, PYTHON_BLOCK) -> "code"
                         [] name = "Executor" /\ cyc \in {"code", "exec"} -> "exec"
                         [] OTHER -> "none"
             /\ cycles' = IF name = "Reviewer" /\ cyc = "exec" THEN cycles + 1 ELSE cycles
             /\ all_failed' =
                    (all_failed /\ ~(name = "Executor" /\ PassingResult(content)))
             /\ reviewer_sentinel' =
                    (reviewer_sentinel \/ (name = "Reviewer" /\ Contains(content, TERMINATE)))

InitiateChatC == InitiateChatStep /\ Track
AgentTurnC == AgentTurnStep /\ Track
ExecutorTurnC == ExecutorTurnStep /\ Track
ExecutorStopsC == ExecutorStopsStep /\ Track
NoSpeakerC == NoSpeakerStep /\ Track
MaxRoundC == MaxRoundStep /\ Track
CheckTerminateC == CheckTerminateStep /\ Track
FinalReportC == FinalReportStep /\ Track

NextCycles ==
    \/ InitiateChatC
    \/ AgentTurnC
    \/ ExecutorTurnC
    \/ ExecutorStopsC
    \/ NoSpeakerC
    \/ MaxRoundC
    \/ CheckTerminateC
    \/ FinalReportC

SpecCycles == InitCycles /\ [][NextCycles]_vars

\* SpecRuns: the same steps for a specification text that holds the sentinel.
InitRuns ==
    /\ pc = "start"
    /\ state = TDDState(SpecSentinel)
    /\ reports = 0
    /\ report = NoReport
    /\ IdleChat /\ IdleHist /\ IdleSel /\ IdleGen

SpecRuns == InitRuns /\ [][NextCycles]_vars

(***************************************************************************)
(* The validators of the generation roles (app/agents/tester.py,           *)
(* app/agents/developer.py).  A validator returns its error message, or    *)
(* "None" for an accepted artifact.                                        *)
(***************************************************************************)

\* str.strip() and the regular expressions' \s
Whitespace ==
    {" ", "\t", "\n", "\r"}

\* the regular expressions' \w
WordChars ==
    {"a", "b", "c", "d", "e", "f", "g", "h", "i", "j", "k", "l", "m",
     "n", "o", "p", "q", "r", "s", "t", "u", "v", "w", "x", "y", "z",
     "A", "B", "C", "D", "E", "F", "G", "H", "I", "J", "K", "L", "M",
     "N", "O", "P", "Q", "R", "S", "T", "U", "V", "W", "X", "Y", "Z",
     "0", "1", "2", "3", "4", "5", "6", "7", "8", "9", "_"}

\* "def test_" and "def "
DEF_TEST ==
    DEF_KEYWORD \o <<" ">> \o TEST_
DEF_SPACE ==
    DEF_KEYWORD \o <<" ">>

\* f"from {module_name} import" and f"import {module_name}"
FROM_MODULE_IMPORT ==
    FROM \o <<" ">> \o IMPLEMENTATION_MODULE \o <<" ">> \o IMPORT
IMPORT_MODULE ==
    IMPORT \o <<" ">> \o IMPLEMENTATION_MODULE

\* "import pytest"
IMPORT_PYTEST ==
    IMPORT \o <<" ">> \o PYTEST

\* s.split('\n')
RECURSIVE split_lines(_)
split_lines(s) ==
    LET i == Find(s, <<"\n">>)
    IN  IF i < 0 THEN <<s>>
        ELSE <<Slice(s, 0, i)>> \o split_lines(Slice(s, i + 1, Len(s)))

\* s.strip()
strip(s) ==
    LET kept == {i \in 1..Len(s) : s[i] \notin Whitespace}
    IN  IF kept = {} THEN <<>>
        ELSE SubSeq(s, CHOOSE i \in kept : \A j \in kept : i <= j,
                       CHOOSE i \in kept : \A j \in kept : i >= j)

\* validate_tests: tests[max(0, tests.find(line)-100):tests.find(line)]
fixture_window == 100

\* validate_tests: the condition under which a line is a non-test function
is_non_test_func(tests, line) ==
    LET stripped == strip(line)
        at == Find(tests, line)
        from == IF at - fixture_window > 0 THEN at - fixture_window ELSE 0
    IN  /\ StartsWith(stripped, DEF_SPACE)
        /\ ~Contains(stripped, DEF_TEST)
        /\ ~Contains(Slice(tests, from, at), FIXTURE)

\* validate_tests: non_test_funcs
non_test_funcs(tests) ==
    LET lines == split_lines(tests)
        leaking(line) == is_non_test_func(tests, line)
        strip_all(ls) == [i \in 1..Len(ls) |-> strip(ls[i])]
    IN  strip_all(SelectSeq(lines, leaking))

\* validate_tests checking the import before the test functions.
validate_tests_import_first(tests) ==
    IF tests = <<>> THEN "Testes vazios gerados"
    ELSE IF /\ ~Contains(tests, FROM_MODULE_IMPORT)
            /\ ~Contains(tests, IMPORT_MODULE) THEN "Testes nao importam de 'app_code'"
    ELSE IF ~Contains(tests, DEF_TEST) THEN "Nenhuma funcao de teste encontrada"
    ELSE IF non_test_funcs(tests) # <<>> THEN "Testes contem implementacao"
    ELSE "None"

validate_tests(tests) ==
    IF tests = <<>> THEN "Testes vazios gerados"
    ELSE IF ~Contains(tests, DEF_TEST) THEN "Nenhuma funcao de teste encontrada"
    ELSE IF /\ ~Contains(tests, FROM_MODULE_IMPORT)
            /\ ~Contains(tests, IMPORT_MODULE) THEN "Testes nao importam de 'app_code'"
    ELSE IF non_test_funcs(tests) # <<>> THEN "Testes contem implementacao"
    ELSE "None"

\* The first position at or after i (1-based, Len(s) + 1 at the end) whose
\* character is not in the class.
RECURSIVE skip(_, _, _)
skip(s, i, class) ==
    IF i <= Len(s) /\ s[i] \in class THEN skip(s, i + 1, class) ELSE i

\* validate_implementation: func_pattern r"def\s+(\w+)\s*\(" matches at the
\* 0-based position pos
func_pattern_at(code, pos) ==
    /\ Slice(code, pos, pos + 3) = DEF_KEYWORD
    /\ LET spaces == skip(code, pos + 4, Whitespace)
           word == skip(code, spaces, WordChars)
           paren == skip(code, word, Whitespace)
       IN  /\ spaces > pos + 4
           /\ word > spaces
           /\ paren <= Len(code)
           /\ code[paren] = "("

\* validate_implementation: code[func_pos:func_pos + 200]
docstring_window == 200

\* validate_implementation: the function matched at pos has no docstring
lacks_docstring(code, pos) ==
    LET next_lines == Slice(code, pos, pos + docstring_window)
    IN  ~Contains(next_lines, DQ3) /\ ~Contains(next_lines, SQ3)

validate_implementation(code) ==
    IF code = <<>> THEN "Codigo vazio gerado"
    ELSE IF Contains(code, DEF_TEST) \/ Contains(code, IMPORT_PYTEST)
         THEN "Codigo contem testes (deve estar em arquivo separado)"
    ELSE IF ~Contains(code, DEF_SPACE) THEN "Nenhuma funcao implementada"
    ELSE IF \E pos \in 0..(Len(code) - 1) :
                func_pattern_at(code, pos) /\ lacks_docstring(code, pos)
         THEN "Funcao nao tem docstring"
    ELSE "None"

(***************************************************************************)
(* Artifacts the Tester and the Developer can answer with.                 *)
(***************************************************************************)
\* 'from app_code import add\n\ndef test_add_zero():\n    assert add(5, 0) == 5\n'
TestsValid1 ==
    <<"f", "r", "o", "m", " ", "a", "p", "p", "_", "c", "o", "d", "e", " ", "i", "m", "p", "o",
      "r", "t", " ", "a", "d", "d", "\n", "\n", "d", "e", "f", " ", "t", "e", "s", "t", "_",
      "a", "d", "d", "_", "z", "e", "r", "o", "(", ")", ":", "\n", " ", " ", " ", " ", "a",
      "s", "s", "e", "r", "t", " ", "a", "d", "d", "(", "5", ",", " ", "0", ")", " ", "=", "=",
      " ", "5", "\n">>
\* 'import app_code\n\ndef test_add():\n    assert app_code.add(2, 3) == 5\n'
TestsValid2 ==
    <<"i", "m", "p", "o", "r", "t", " ", "a", "p", "p", "_", "c", "o", "d", "e", "\n", "\n",
      "d", "e", "f", " ", "t", "e", "s", "t", "_", "a", "d", "d", "(", ")", ":", "\n", " ",
      " ", " ", " ", "a", "s", "s", "e", "r", "t", " ", "a", "p", "p", "_", "c", "o", "d", "e",
      ".", "a", "d", "d", "(", "2", ",", " ", "3", ")", " ", "=", "=", " ", "5", "\n">>
\* 'import pytest\nfrom app_code import add\n\n@pytest.fixture\ndef two():\n    return 2\n\ndef test_add(two):\n    assert add(two, 0) == 2\n'
TestsFixture ==
    <<"i", "m", "p", "o", "r", "t", " ", "p", "y", "t", "e", "s", "t", "\n", "f", "r", "o",
      "m", " ", "a", "p", "p", "_", "c", "o", "d", "e", " ", "i", "m", "p", "o", "r", "t", " ",
      "a", "d", "d", "\n", "\n", "@", "p", "y", "t", "e", "s", "t", ".", "f", "i", "x", "t",
      "u", "r", "e", "\n", "d", "e", "f", " ", "t", "w", "o", "(", ")", ":", "\n", " ", " ",
      " ", " ", "r", "e", "t", "u", "r", "n", " ", "2", "\n", "\n", "d", "e", "f", " ", "t",
      "e", "s", "t", "_", "a", "d", "d", "(", "t", "w", "o", ")", ":", "\n", " ", " ", " ",
      " ", "a", "s", "s", "e", "r", "t", " ", "a", "d", "d", "(", "t", "w", "o", ",", " ", "0",
      ")", " ", "=", "=", " ", "2", "\n">>
TestsEmpty ==
    <<>>
\* '  \n'
TestsBlank ==
    <<" ", " ", "\n">>
\* 'from app_code import add\n'
TestsNoTestFunction ==
    <<"f", "r", "o", "m", " ", "a", "p", "p", "_", "c", "o", "d", "e", " ", "i", "m", "p", "o",
      "r", "t", " ", "a", "d", "d", "\n">>
\* 'def test_add():\n    assert 1 + 1 == 2\n'
TestsNoImport ==
    <<"d", "e", "f", " ", "t", "e", "s", "t", "_", "a", "d", "d", "(", ")", ":", "\n", " ",
      " ", " ", " ", "a", "s", "s", "e", "r", "t", " ", "1", " ", "+", " ", "1", " ", "=", "=",
      " ", "2", "\n">>
\* 'from app_code import add\n\ndef add2(a, b):\n    return a + b\n\ndef test_add():\n    assert add2(1, 2) == 3\n'
TestsLeak ==
    <<"f", "r", "o", "m", " ", "a", "p", "p", "_", "c", "o", "d", "e", " ", "i", "m", "p", "o",
      "r", "t", " ", "a", "d", "d", "\n", "\n", "d", "e", "f", " ", "a", "d", "d", "2", "(",
      "a", ",", " ", "b", ")", ":", "\n", " ", " ", " ", " ", "r", "e", "t", "u", "r", "n",
      " ", "a", " ", "+", " ", "b", "\n", "\n", "d", "e", "f", " ", "t", "e", "s", "t", "_",
      "a", "d", "d", "(", ")", ":", "\n", " ", " ", " ", " ", "a", "s", "s", "e", "r", "t",
      " ", "a", "d", "d", "2", "(", "1", ",", " ", "2", ")", " ", "=", "=", " ", "3", "\n">>
\* 'def add(a, b):\n    """Soma dois numeros."""\n    return a + b\n'
CodeValid1 ==
    <<"d", "e", "f", " ", "a", "d", "d", "(", "a", ",", " ", "b", ")", ":", "\n", " ", " ",
      " ", " ", "\"", "\"", "\"", "S", "o", "m", "a", " ", "d", "o", "i", "s", " ", "n", "u",
      "m", "e", "r", "o", "s", ".", "\"", "\"", "\"", "\n", " ", " ", " ", " ", "r", "e", "t",
      "u", "r", "n", " ", "a", " ", "+", " ", "b", "\n">>
\* "def add(a, b):\n    '''Soma.'''\n    return b + a\n"
CodeValid2 ==
    <<"d", "e", "f", " ", "a", "d", "d", "(", "a", ",", " ", "b", ")", ":", "\n", " ", " ",
      " ", " ", "'", "'", "'", "S", "o", "m", "a", ".", "'", "'", "'", "\n", " ", " ", " ",
      " ", "r", "e", "t", "u", "r", "n", " ", "b", " ", "+", " ", "a", "\n">>
CodeEmpty ==
    <<>>
\* 'def add(a, b):\n    return a + b\n'
CodeNoDocstring ==
    <<"d", "e", "f", " ", "a", "d", "d", "(", "a", ",", " ", "b", ")", ":", "\n", " ", " ",
      " ", " ", "r", "e", "t", "u", "r", "n", " ", "a", " ", "+", " ", "b", "\n">>
\* "def add(a, b):\n    '''Soma.'''\n    return a + b\n\ndef test_add():\n    assert add(1, 2) == 3\n"
CodeTestLeak ==
    <<"d", "e", "f", " ", "a", "d", "d", "(", "a", ",", " ", "b", ")", ":", "\n", " ", " ",
      " ", " ", "'", "'", "'", "S", "o", "m", "a", ".", "'", "'", "'", "\n", " ", " ", " ",
      " ", "r", "e", "t", "u", "r", "n", " ", "a", " ", "+", " ", "b", "\n", "\n", "d", "e",
      "f", " ", "t", "e", "s", "t", "_", "a", "d", "d", "(", ")", ":", "\n", " ", " ", " ",
      " ", "a", "s", "s", "e", "r", "t", " ", "a", "d", "d", "(", "1", ",", " ", "2", ")", " ",
      "=", "=", " ", "3", "\n">>
\* 'add = lambda a, b: a + b\n'
CodeNoFunction ==
    <<"a", "d", "d", " ", "=", " ", "l", "a", "m", "b", "d", "a", " ", "a", ",", " ", "b", ":",
      " ", "a", " ", "+", " ", "b", "\n">>

(***************************************************************************)
(* The generation roles.  assistant_messages is the list of the contents   *)
(* of the assistant's messages in response.chat_history.  The result is    *)
(* the state and the file after the call and the exception raised, "None"  *)
(* when the call returns.                                                  *)
(***************************************************************************)

\* StateManager.save_test_file, StateManager.save_implementation_file
save_file(content) ==
    [exists |-> TRUE, content |-> content]

Last(seq) == seq[Len(seq)]

\* generate_tests without `tests = previous_tests`: the rejected output is kept.
generate_tests_no_restore(st, file, assistant_messages) ==
    LET previous_tests == get(st, "tests", <<>>)
        raise(error) == [state |-> st, file |-> file, raised |-> error]
        save(tests) ==
            [state  |-> update(st, [tests |-> tests, test_phase |-> "red",
                                    previous_tests |-> previous_tests]),
             file   |-> save_file(tests),
             raised |-> "None"]
    IN  IF assistant_messages = <<>> THEN raise("ValueError: Tester nao gerou resposta")
        ELSE LET tests == Last(assistant_messages)
             IN  IF validate_tests(tests) # "None"
                 THEN IF previous_tests # <<>> THEN save(tests)
                      ELSE raise("ValueError: Falha ao gerar testes validos")
                 ELSE save(tests)

\* generate_tests keeping the older snapshot when it rolls back.
generate_tests_stale_snapshot(st, file, assistant_messages) ==
    LET previous_tests == get(st, "tests", <<>>)
        raise(error) == [state |-> st, file |-> file, raised |-> error]
        save(tests) ==
            [state  |-> update(st, [tests |-> tests, test_phase |-> "red",
                                    previous_tests |-> previous_tests]),
             file   |-> save_file(tests),
             raised |-> "None"]
        restore(tests) ==
            [state  |-> update(st, [tests |-> tests, test_phase |-> "red"]),
             file   |-> save_file(tests),
             raised |-> "None"]
    IN  IF assistant_messages = <<>> THEN raise("ValueError: Tester nao gerou resposta")
        ELSE LET tests == Last(assistant_messages)
             IN  IF validate_tests(tests) # "None"
                 THEN IF previous_tests # <<>> THEN restore(previous_tests)
                      ELSE raise("ValueError: Falha ao gerar testes validos")
                 ELSE save(tests)

generate_tests(st, file, assistant_messages) ==
    LET previous_tests == get(st, "tests", <<>>)
        raise(error) == [state |-> st, file |-> file, raised |-> error]
        save(tests) ==
            [state  |-> update(st, [tests |-> tests, test_phase |-> "red",
                                    previous_tests |-> previous_tests]),
             file   |-> save_file(tests),
             raised |-> "None"]
    IN  IF assistant_messages = <<>> THEN raise("ValueError: Tester nao gerou resposta")
        ELSE LET tests == Last(assistant_messages)
             IN  IF validate_tests(tests) # "None"
                 THEN IF previous_tests # <<>> THEN save(previous_tests)
                      ELSE raise("ValueError: Falha ao gerar testes validos")
                 ELSE save(tests)

\* generate_code saving the file before it validates the output.
generate_code_save_first(st, file, assistant_messages) ==
    LET prev_code == get(st, "code", <<>>)
        code == IF assistant_messages # <<>> THEN Last(assistant_messages) ELSE <<>>
        raise(error) == [state |-> st, file |-> save_file(code), raised |-> error]
        save(kept) ==
            [state  |-> update(st, [code |-> kept, test_phase |-> "green"]),
             file   |-> save_file(kept),
             raised |-> "None"]
    IN  IF validate_implementation(code) # "None"
        THEN IF prev_code # <<>> THEN save(prev_code)
             ELSE raise("ValueError: Falha ao gerar codigo valido")
        ELSE save(code)

generate_code(st, file, assistant_messages) ==
    LET prev_code == get(st, "code", <<>>)
        raise(error) == [state |-> st, file |-> file, raised |-> error]
        save(code) ==
            [state  |-> update(st, [code |-> code, test_phase |-> "green"]),
             file   |-> save_file(code),
             raised |-> "None"]
        code == IF assistant_messages # <<>> THEN Last(assistant_messages) ELSE <<>>
    IN  IF validate_implementation(code) # "None"
        THEN IF prev_code # <<>> THEN save(prev_code)
             ELSE raise("ValueError: Falha ao gerar codigo valido")
        ELSE save(code)

(***************************************************************************)
(* SpecGen: the generation roles called in any order on one StateManager.  *)
(***************************************************************************)

\* response.chat_history of the Tester: no assistant message, or some
TesterResponses ==
    {<<>>, <<TestsValid1>>, <<TestsValid2>>, <<TestsFixture>>, <<TestsEmpty>>,
     <<TestsBlank>>, <<TestsNoTestFunction>>, <<TestsNoImport>>, <<TestsLeak>>,
     <<TestsLeak, TestsValid1>>}

\* response.chat_history of the Developer
DeveloperResponses ==
    {<<>>, <<CodeValid1>>, <<CodeValid2>>, <<CodeEmpty>>, <<CodeNoDocstring>>,
     <<CodeTestLeak>>, <<CodeNoFunction>>, <<CodeNoDocstring, CodeValid2>>}

\* The workspace may hold files of an earlier run.
InitGen ==
    /\ pc = "idle"
    /\ state = TDDState(SpecAdd)
    /\ reports = 0
    /\ report = NoReport
    /\ IdleChat /\ IdleHist /\ IdleSel
    /\ test_file \in {Absent, save_file(TestsValid2)}
    /\ impl_file \in {Absent, save_file(CodeValid2)}
    /\ call = NoCall

\* generate_tests(specification, state) with the Tester answering any of `responses`.
GenerateTestsOn(responses) ==
    \E assistant_messages \in responses :
        \E r \in {generate_tests(state, test_file, assistant_messages)} :
            /\ state' = r.state
            /\ test_file' = r.file
            /\ call' = [op |-> "generate_tests", response |-> assistant_messages,
                        raised |-> r.raised, state |-> state, file |-> test_file]

\* generate_code(state) with the Developer answering any of `responses`.
GenerateCodeOn(responses) ==
    \E assistant_messages \in responses :
        \E r \in {generate_code(state, impl_file, assistant_messages)} :
            /\ state' = r.state
            /\ impl_file' = r.file
            /\ call' = [op |-> "generate_code", response |-> assistant_messages,
                        raised |-> r.raised, state |-> state, file |-> impl_file]

GenerateTests ==
    /\ GenerateTestsOn(TesterResponses)
    /\ UNCHANGED <<pc, reports, report, impl_file, chatVars, histVars, selVars>>

GenerateCode ==
    /\ GenerateCodeOn(DeveloperResponses)
    /\ UNCHANGED <<pc, reports, report, test_file, chatVars, histVars, selVars>>

NextGen ==
    \/ GenerateTests
    \/ GenerateCode

SpecGen == InitGen /\ [][NextGen]_vars

(***************************************************************************)
(* SpecVal: the first answer of a generation role on a fresh run, drawn    *)
(* from all texts of a few lines; the call records the validator's error.  *)
(***************************************************************************)

\* The greatest number of lines of an answer.
MaxLines == 3

\* Lines a Tester answer is made of.
\* '  '
TL_Blank ==
    <<" ", " ">>
\* 'from app_code import add'
TL_Import ==
    <<"f", "r", "o", "m", " ", "a", "p", "p", "_", "c", "o", "d", "e", " ", "i", "m", "p", "o",
      "r", "t", " ", "a", "d", "d">>
\* 'import app_code'
TL_ImportModule ==
    <<"i", "m", "p", "o", "r", "t", " ", "a", "p", "p", "_", "c", "o", "d", "e">>
\* 'def test_add(): assert add(1, 2) == 3'
TL_Test ==
    <<"d", "e", "f", " ", "t", "e", "s", "t", "_", "a", "d", "d", "(", ")", ":", " ", "a", "s",
      "s", "e", "r", "t", " ", "a", "d", "d", "(", "1", ",", " ", "2", ")", " ", "=", "=", " ",
      "3">>
\* 'def helper(): return 1'
TL_Helper ==
    <<"d", "e", "f", " ", "h", "e", "l", "p", "e", "r", "(", ")", ":", " ", "r", "e", "t", "u",
      "r", "n", " ", "1">>
\* '@pytest.fixture'
TL_Fixture ==
    <<"@", "p", "y", "t", "e", "s", "t", ".", "f", "i", "x", "t", "u", "r", "e">>
TestLines ==
    {TL_Blank, TL_Import, TL_ImportModule, TL_Test, TL_Helper, TL_Fixture}

\* Lines a Developer answer is made of.
\* 'def add(a, b):'
CL_Def ==
    <<"d", "e", "f", " ", "a", "d", "d", "(", "a", ",", " ", "b", ")", ":">>
\* "    '''Soma.'''"
CL_Doc ==
    <<" ", " ", " ", " ", "'", "'", "'", "S", "o", "m", "a", ".", "'", "'", "'">>
\* '    return a + b'
CL_Body ==
    <<" ", " ", " ", " ", "r", "e", "t", "u", "r", "n", " ", "a", " ", "+", " ", "b">>
\* 'def sub(a, b):'
CL_Def2 ==
    <<"d", "e", "f", " ", "s", "u", "b", "(", "a", ",", " ", "b", ")", ":">>
\* 'x = 1  # def later'
CL_Comment ==
    <<"x", " ", "=", " ", "1", " ", " ", "#", " ", "d", "e", "f", " ", "l", "a", "t", "e", "r">>
\* 'def test_add(): pass'
CL_TestDef ==
    <<"d", "e", "f", " ", "t", "e", "s", "t", "_", "a", "d", "d", "(", ")", ":", " ", "p", "a",
      "s", "s">>
\* 'import pytest'
CL_ImportPytest ==
    <<"i", "m", "p", "o", "r", "t", " ", "p", "y", "t", "e", "s", "t">>
CodeLines ==
    {CL_Def, CL_Doc, CL_Body, CL_Def2, CL_Comment, CL_TestDef, CL_ImportPytest}

\* '\n'.join(ls)
RECURSIVE join_lines(_)
join_lines(ls) ==
    IF ls = <<>> THEN <<>>
    ELSE IF Len(ls) = 1 THEN ls[1]
    ELSE ls[1] \o <<"\n">> \o join_lines(Tail(ls))

\* The texts of at most MaxLines lines taken from a set of lines.
Texts(lines) ==
    {join_lines(ls) : ls \in UNION {[1..n -> lines] : n \in 0..MaxLines}}

\* A fresh run: nothing generated, no file in the workspace.
InitVal ==
    /\ pc = "idle"
    /\ state = TDDState(SpecAdd)
    /\ reports = 0
    /\ report = NoReport
    /\ IdleChat /\ IdleHist /\ IdleSel /\ IdleGen

\* generate_tests with one assistant message; error is what validate_tests
\* returned for it (`if error := validate_tests(tests)`).
TesterFirstAnswer ==
    /\ call = NoCall
    /\ \E tests \in Texts(TestLines) :
        \E r \in {generate_tests(state, test_file, <<tests>>)} :
            /\ state' = r.state
            /\ test_file' = r.file
            /\ call' = [op |-> "generate_tests", response |-> <<tests>>,
                        raised |-> r.raised, state |-> state, file |-> test_file,
                        error |-> validate_tests(tests)]
    /\ UNCHANGED <<pc, reports, report, impl_file, chatVars, histVars, selVars>>

\* generate_code with one assistant message; error is what
\* validate_implementation returned for it.
DeveloperFirstAnswer ==
    /\ call = NoCall
    /\ \E code \in Texts(CodeLines) :
        \E r \in {generate_code(state, impl_file, <<code>>)} :
            /\ state' = r.state
            /\ impl_file' = r.file
            /\ call' = [op |-> "generate_code", response |-> <<code>>,
                        raised |-> r.raised, state |-> state, file |-> impl_file,
                        error |-> validate_implementation(code)]
    /\ UNCHANGED <<pc, reports, report, test_file, chatVars, histVars, selVars>>

NextVal ==
    \/ TesterFirstAnswer
    \/ DeveloperFirstAnswer

SpecVal == InitVal /\ [][NextVal]_vars

(***************************************************************************)
(* The test runner (app/agents/runner.py) and the Reviewer's analysis      *)
(* (app/agents/reviewer.py).  st is the TDDState of the StateManager       *)
(* passed as `state`, or NoStateManager when the argument is omitted.      *)
(***************************************************************************)

\* state: Optional[StateManager] = None
NoStateManager == [none |-> TRUE]

UpperCase ==
    <<"A", "B", "C", "D", "E", "F", "G", "H", "I", "J", "K", "L", "M",
      "N", "O", "P", "Q", "R", "S", "T", "U", "V", "W", "X", "Y", "Z">>
LowerCase ==
    <<"a", "b", "c", "d", "e", "f", "g", "h", "i", "j", "k", "l", "m",
      "n", "o", "p", "q", "r", "s", "t", "u", "v", "w", "x", "y", "z">>

\* str.lower() of one character
lower_char(c) ==
    IF \E k \in 1..Len(UpperCase) : UpperCase[k] = c
    THEN LowerCase[CHOOSE k \in 1..Len(UpperCase) : UpperCase[k] = c]
    ELSE c

\* str.lower()
lower(s) ==
    [i \in 1..Len(s) |-> lower_char(s[i])]

\* The word w stands at the 0-based position pos of s, letter case ignored
\* (a literal under re.IGNORECASE).
MatchesIgnoreCase(s, pos, w) ==
    /\ pos + Len(w) <= Len(s)
    /\ \A i \in 1..Len(w) : lower_char(s[pos + i]) = lower_char(w[i])

\* run_tests: f"Arquivo de teste não encontrado: {test_path}"
MissingTestFile ==
    <<"A", "r", "q", "u", "i", "v", "o", " ", "d", "e", " ", "t", "e", "s", "t", "e", " ", "n",
      "a", "o", " ", "e", "n", "c", "o", "n", "t", "r", "a", "d", "o", ":", " ", "w", "o", "r",
      "k", "s", "p", "a", "c", "e", "/", "t", "e", "s", "t", "_", "a", "p", "p", ".", "p", "y">>
\* run_tests: f"Erro ao executar pytest: {str(e)}"
PytestLaunchError ==
    <<"E", "r", "r", "o", " ", "a", "o", " ", "e", "x", "e", "c", "u", "t", "a", "r", " ", "p",
      "y", "t", "e", "s", "t", ":", " ", "S", "u", "b", "p", "r", "o", "c", "e", "s", "s", "E",
      "r", "r", "o", "r">>
\* run_tests: f"Erro inesperado: {str(e)}"
UnexpectedError ==
    <<"E", "r", "r", "o", " ", "i", "n", "e", "s", "p", "e", "r", "a", "d", "o", ":", " ", "O",
      "S", "E", "r", "r", "o", "r">>

\* run_tests with every operand lower-cased before it is searched.
run_tests_upper_only(st, test_file_exists, process) ==
    IF ~test_file_exists THEN [state |-> st, result |-> MissingTestFile, raised |-> "None"]
    ELSE IF process.kind = "SubprocessError"
         THEN [state |-> st, result |-> PytestLaunchError, raised |-> "None"]
    ELSE IF process.kind = "Exception"
         THEN [state |-> st, result |-> UnexpectedError, raised |-> "None"]
    ELSE LET output == process.stdout \o (IF process.stderr # <<>>
                                          THEN <<"\n">> \o process.stderr ELSE <<>>)
             has_passed == Contains(output, PASSED)
             has_failures == Contains(output, FAILED) \/ Contains(output, ERROR)
             status == IF has_passed /\ ~has_failures THEN "passed" ELSE "failed"
         IN  [state  |-> IF st = NoStateManager THEN st ELSE update(st, [status |-> status]),
              result |-> output,
              raised |-> "None"]

\* run_tests(state): process is what subprocess.run did: it completed with
\* stdout and stderr, or raised SubprocessError, or another Exception.
run_tests(st, test_file_exists, process) ==
    IF ~test_file_exists THEN [state |-> st, result |-> MissingTestFile, raised |-> "None"]
    ELSE IF process.kind = "SubprocessError"
         THEN [state |-> st, result |-> PytestLaunchError, raised |-> "None"]
    ELSE IF process.kind = "Exception"
         THEN [state |-> st, result |-> UnexpectedError, raised |-> "None"]
    ELSE LET output == process.stdout \o (IF process.stderr # <<>>
                                          THEN <<"\n">> \o process.stderr ELSE <<>>)
             has_passed == Contains(lower(output), lower(PASSED))
             has_failures == \/ Contains(lower(output), lower(FAILED))
                             \/ Contains(lower(output), lower(ERROR))
             status == IF has_passed /\ ~has_failures THEN "passed" ELSE "failed"
         IN  [state  |-> IF st = NoStateManager THEN st ELSE update(st, [status |-> status]),
              result |-> output,
              raised |-> "None"]

NoMatch == [matched |-> FALSE]

\* extract_test_results: test_pattern r"(PASSED|FAILED|ERROR)\s+(test_[\w\d_]+)"
\* under re.IGNORECASE, tried at the 0-based position pos; end is the
\* 0-based position after the match.
test_pattern_at(output, pos) ==
    LET words == {w \in {PASSED, FAILED, ERROR} : MatchesIgnoreCase(output, pos, w)}
    IN  IF words = {} THEN NoMatch
        ELSE LET w == CHOOSE x \in words : TRUE
                 spaces == skip(output, pos + Len(w) + 1, Whitespace)
                 name_end == skip(output, spaces + Len(TEST_), WordChars)
             IN  IF /\ spaces > pos + Len(w) + 1
                    /\ MatchesIgnoreCase(output, spaces - 1, TEST_)
                    /\ name_end > spaces + Len(TEST_)
                 THEN [matched   |-> TRUE,
                       status    |-> lower(w),
                       test_name |-> SubSeq(output, spaces, name_end - 1),
                       end       |-> name_end - 1]
                 ELSE NoMatch

\* re.finditer(test_pattern, output, re.IGNORECASE) from the position `from`
RECURSIVE finditer_tests(_, _)
finditer_tests(output, from) ==
    LET starts == {p \in from..(Len(output) - 1) : test_pattern_at(output, p).matched}
    IN  IF starts = {} THEN <<>>
        ELSE LET m == test_pattern_at(output, CHOOSE p \in starts : \A q \in starts : p <= q)
             IN  <<m>> \o finditer_tests(output, m.end)

\* extract_test_results(output)
extract_test_results(output) ==
    LET matches == finditer_tests(output, 0)
        is_passed(m) == m.status = lower(PASSED)
        is_failed(m) == m.status = lower(FAILED)
        is_error(m) == ~is_passed(m) /\ ~is_failed(m)
        names(ms) == [i \in 1..Len(ms) |-> ms[i].test_name]
    IN  [passed |-> names(SelectSeq(matches, is_passed)),
         failed |-> names(SelectSeq(matches, is_failed)),
         errors |-> names(SelectSeq(matches, is_error))]

\* analyze_failures: error_pattern r"(test_[\w\d_]+).*?\n(.*?)(?=\n\n|$)" under
\* re.DOTALL, tried at the 0-based position pos.
error_pattern_at(output, pos) ==
    LET name_end == skip(output, pos + Len(TEST_) + 1, WordChars)
        newlines == {i \in name_end..Len(output) : output[i] = "\n"}
    IN  IF /\ Slice(output, pos, pos + Len(TEST_)) = TEST_
           /\ name_end > pos + Len(TEST_) + 1
           /\ newlines # {}
        THEN LET nl == CHOOSE i \in newlines : \A j \in newlines : i <= j
                 ends == {e \in nl..Len(output) :
                            \/ Slice(output, e, e + 2) = <<"\n", "\n">>
                            \/ e = Len(output)
                            \/ e = Len(output) - 1 /\ output[Len(output)] = "\n"}
                 end == CHOOSE e \in ends : \A f \in ends : e <= f
             IN  [matched   |-> TRUE,
                  test_name |-> Slice(output, pos, name_end - 1),
                  error_msg |-> Slice(output, nl, end),
                  end       |-> end]
        ELSE NoMatch

\* re.finditer(error_pattern, output, re.DOTALL) from the position `from`
RECURSIVE finditer_errors(_, _)
finditer_errors(output, from) ==
    LET starts == {p \in from..(Len(output) - 1) : error_pattern_at(output, p).matched}
    IN  IF starts = {} THEN <<>>
        ELSE LET m == error_pattern_at(output, CHOOSE p \in starts : \A q \in starts : p <= q)
             IN  <<m>> \o finditer_errors(output, m.end)

\* The two lines appended for each cause: "- {test_name}:" and the message.
RECURSIVE cause_lines(_)
cause_lines(matches) ==
    IF matches = <<>> THEN <<>>
    ELSE <<<<"cause", matches[1].test_name>>,
           <<"cause message", strip(matches[1].error_msg)>>>>
         \o cause_lines(Tail(matches))

\* analyze_failures: "Erro: Nenhuma saída de teste fornecida"
NoOutputProvided ==
    <<"E", "r", "r", "o", ":", " ", "N", "e", "n", "h", "u", "m", "a", " ", "s", "a", "i", "d",
      "a", " ", "d", "e", " ", "t", "e", "s", "t", "e", " ", "f", "o", "r", "n", "e", "c", "i",
      "d", "a">>

\* analyze_failures with the status computed from the failed tests only.
analyze_failures_ignoring_errors(output, st) ==
    IF output = <<>>
    THEN [state |-> st, result |-> NoOutputProvided, raised |-> "None"]
    ELSE LET results == extract_test_results(output)
             n_failed == Len(results.failed)
             status == IF n_failed > 0 THEN "failed" ELSE "passed"
         IN  [state  |-> IF st = NoStateManager THEN st ELSE update(st, [status |-> status]),
              result |-> <<>>,
              raised |-> "None"]

\* analyze_failures recording an absent output as a failed round.
analyze_failures_absent_is_failed(output, st) ==
    IF output = <<>>
    THEN [state  |-> IF st = NoStateManager THEN st ELSE update(st, [status |-> "failed"]),
          result |-> NoOutputProvided,
          raised |-> "None"]
    ELSE [state |-> st, result |-> <<>>, raised |-> "None"]

\* analyze_failures(output, state): the result is the feedback, line by line
\* ("\n".join(feedback)), each line given by its label and its values.
analyze_failures(output, st) ==
    IF output = <<>>
    THEN [state |-> st, result |-> NoOutputProvided, raised |-> "None"]
    ELSE LET results == extract_test_results(output)
             n_passed == Len(results.passed)
             n_failed == Len(results.failed)
             n_errors == Len(results.errors)
             total == n_passed + n_failed + n_errors
             failing == n_failed > 0 \/ n_errors > 0
             in_failing(m) == \E i \in 1..Len(results.failed \o results.errors) :
                                 (results.failed \o results.errors)[i] = m.test_name
             feedback ==
                 <<<<"rule">>, <<"RELATORIO DE TESTES">>, <<"rule">>,
                   <<"Total de testes", total>>, <<"Passaram", n_passed>>>>
                 \o (IF n_failed > 0 THEN <<<<"Falharam", n_failed>>>> ELSE <<>>)
                 \o (IF n_errors > 0 THEN <<<<"Erros", n_errors>>>> ELSE <<>>)
                 \o (IF failing
                     THEN <<<<"Detalhes das Falhas">>>>
                          \o [i \in 1..n_failed |-> <<"failed test", results.failed[i]>>]
                          \o [i \in 1..n_errors |-> <<"errored test", results.errors[i]>>]
                          \o <<<<"Causas das Falhas">>>>
                          \o cause_lines(SelectSeq(finditer_errors(output, 0), in_failing))
                     ELSE <<>>)
             status == IF failing THEN "failed" ELSE "passed"
         IN  [state  |-> IF st = NoStateManager THEN st ELSE update(st, [status |-> status]),
              result |-> feedback,
              raised |-> "None"]

(***************************************************************************)
(* SpecOut: one call of run_tests or of analyze_failures on a fresh run,   *)
(* on any output of a few lines.                                           *)
(***************************************************************************)

\* Lines an execution output is made of.
\* 'PASSED test_y'
OL_Passed ==
    <<"P", "A", "S", "S", "E", "D", " ", "t", "e", "s", "t", "_", "y">>
\* 'FAILED test_x'
OL_Failed ==
    <<"F", "A", "I", "L", "E", "D", " ", "t", "e", "s", "t", "_", "x">>
\* 'ERROR test_z'
OL_Error ==
    <<"E", "R", "R", "O", "R", " ", "t", "e", "s", "t", "_", "z">>
\* 'test_app.py::test_add PASSED'
OL_Pytest ==
    <<"t", "e", "s", "t", "_", "a", "p", "p", ".", "p", "y", ":", ":", "t", "e", "s", "t", "_",
      "a", "d", "d", " ", "P", "A", "S", "S", "E", "D">>
\* '1 passed in 0.01s'
OL_Summary ==
    <<"1", " ", "p", "a", "s", "s", "e", "d", " ", "i", "n", " ", "0", ".", "0", "1", "s">>
\* 'assert 1 == 2'
OL_Assert ==
    <<"a", "s", "s", "e", "r", "t", " ", "1", " ", "=", "=", " ", "2">>
OL_Empty ==
    <<>>
OutputLines ==
    {OL_Passed, OL_Failed, OL_Error, OL_Pytest, OL_Summary, OL_Assert, OL_Empty}

\* 'ImportError: app_code'
StderrImport ==
    <<"I", "m", "p", "o", "r", "t", "E", "r", "r", "o", "r", ":", " ", "a", "p", "p", "_", "c",
      "o", "d", "e">>

\* What subprocess.run can do when pytest is launched.
Processes(outputs) ==
    [kind : {"completed"}, stdout : outputs, stderr : {<<>>, StderrImport}]
    \cup {[kind |-> "SubprocessError"], [kind |-> "Exception"]}

InitOut ==
    /\ pc = "idle"
    /\ state = TDDState(SpecAdd)
    /\ reports = 0
    /\ report = NoReport
    /\ IdleChat /\ IdleHist /\ IdleSel
    /\ test_file \in {Absent, save_file(TestsValid1)}
    /\ impl_file = Absent
    /\ call = NoCall

\* run_tests(state) or run_tests() with the process doing any of `processes`.
RunTestsOn(processes) ==
    \E process \in processes, with_state \in BOOLEAN :
        \E r \in {run_tests(IF with_state THEN state ELSE NoStateManager,
                             test_file.exists, process)} :
            /\ state' = IF with_state THEN r.state ELSE state
            /\ call' = [op |-> "run_tests", process |-> process,
                        with_state |-> with_state, state |-> state,
                        result |-> r.result, raised |-> r.raised]

\* analyze_failures(output, state) or analyze_failures(output) on any of `outputs`.
AnalyzeFailuresOn(outputs) ==
    \E output \in outputs, with_state \in BOOLEAN :
        \E r \in {analyze_failures(output, IF with_state THEN state ELSE NoStateManager)} :
            /\ state' = IF with_state THEN r.state ELSE state
            /\ call' = [op |-> "analyze_failures", output |-> output,
                        with_state |-> with_state, state |-> state,
                        result |-> r.result, raised |-> r.raised]

RunTestsOnce ==
    /\ call = NoCall
    /\ RunTestsOn(Processes(Texts(OutputLines)))
    /\ UNCHANGED <<pc, reports, report, test_file, impl_file, chatVars, histVars, selVars>>

AnalyzeFailuresOnce ==
    /\ call = NoCall
    /\ AnalyzeFailuresOn(Texts(OutputLines))
    /\ UNCHANGED <<pc, reports, report, test_file, impl_file, chatVars, histVars, selVars>>

NextOut ==
    \/ RunTestsOnce
    \/ AnalyzeFailuresOnce

SpecOut == InitOut /\ [][NextOut]_vars

(***************************************************************************)
(* SpecExec: run_tests and analyze_failures called in any order on one     *)
(* StateManager, so that a call finds the status an earlier call left.     *)
(***************************************************************************)

\* Execution outputs: none, all passing, one failing, pytest's own format.
ExecOutputs ==
    {<<>>, OL_Passed, join_lines(<<OL_Failed, OL_Passed>>), OL_Error,
     join_lines(<<OL_Pytest, OL_Summary>>)}

RunTests ==
    /\ RunTestsOn(Processes(ExecOutputs))
    /\ UNCHANGED <<pc, reports, report, test_file, impl_file, chatVars, histVars, selVars>>

AnalyzeFailures ==
    /\ AnalyzeFailuresOn(ExecOutputs)
    /\ UNCHANGED <<pc, reports, report, test_file, impl_file, chatVars, histVars, selVars>>

NextExec ==
    \/ RunTests
    \/ AnalyzeFailures

SpecExec == InitOut /\ [][NextExec]_vars

(***************************************************************************)
(* StateManager.update and StateManager.get called by any caller           *)
(* (app/state.py).                                                         *)
(***************************************************************************)
\* the largest number of keyword arguments of one call of update
MaxKeys == 2

\* keywords a caller passes to update: two fields, a misspelt field and the
\* name of the method's own parameter
UpdateKeys ==
    {"status", "iteration", "stauts", "self"}

\* names a caller asks get for: two fields, a misspelt field and a method
GetKeys ==
    {"status", "iteration", "stauts", "to_dict"}

\* values of different Python types (update declares none)
Values ==
    <<"passed", 3>>

\* defaults of different Python types
Defaults ==
    <<"unknown", 0>>

\* state.update(**kwargs) with at most MaxKeys keywords, of any value
Update ==
    /\ \E ks \in SUBSET UpdateKeys :
          /\ Cardinality(ks) <= MaxKeys
          /\ \E choice \in [ks -> 1..Len(Values)] :
                LET kwargs == [k \in ks |-> Values[choice[k]]]
                IN  \E r \in {StateManager_update(state, kwargs)} :
                        /\ state' = r.state
                        /\ call' = [op |-> "update", kwargs |-> kwargs,
                                    state |-> state, raised |-> r.raised]
    /\ UNCHANGED <<pc, reports, report, test_file, impl_file, chatVars, histVars, selVars>>

\* state.get(key, default)
Get ==
    /\ \E key \in GetKeys, d \in 1..Len(Defaults) :
          call' = [op |-> "get", key |-> key, default |-> Defaults[d],
                   state |-> state, result |-> get(state, key, Defaults[d])]
    /\ UNCHANGED <<pc, state, reports, report, test_file, impl_file, chatVars, histVars,
                   selVars>>

NextState ==
    \/ Update
    \/ Get

SpecState == InitVal /\ [][NextState]_vars

(***************************************************************************)
(* SpecRoles: the operations of a run that write the run state, called in  *)
(* any order on one StateManager: generate_tests, generate_code,           *)
(* run_tests, analyze_failures and the status updates of run().            *)
(***************************************************************************)

\* Answers of the Tester: none, two valid artifacts, one without the import.
RoleTests ==
    {<<>>, <<TestsValid1>>, <<TestsValid2>>, <<TestsNoImport>>}

\* Answers of the Developer: none, two valid artifacts, one without docstring.
RoleCodes ==
    {<<>>, <<CodeValid1>>, <<CodeValid2>>, <<CodeNoDocstring>>}

\* pytest passing, pytest failing, pytest not launched.
RoleProcesses ==
    {[kind |-> "completed", stdout |-> OL_Passed, stderr |-> <<>>],
     [kind |-> "completed", stdout |-> OL_Failed, stderr |-> <<>>],
     [kind |-> "SubprocessError"]}

\* Outputs handed to the Reviewer: none, one failing test.
RoleOutputs ==
    {<<>>, OL_Failed}

TesterCall ==
    /\ GenerateTestsOn(RoleTests)
    /\ UNCHANGED <<pc, reports, report, impl_file, chatVars, histVars, selVars>>

DeveloperCall ==
    /\ GenerateCodeOn(RoleCodes)
    /\ UNCHANGED <<pc, reports, report, test_file, chatVars, histVars, selVars>>

RunnerCall ==
    /\ RunTestsOn(RoleProcesses)
    /\ UNCHANGED <<pc, reports, report, test_file, impl_file, chatVars, histVars, selVars>>

ReviewerCall ==
    /\ AnalyzeFailuresOn(RoleOutputs)
    /\ UNCHANGED <<pc, reports, report, test_file, impl_file, chatVars, histVars, selVars>>

\* run(): state.update(status="passed") when a late message holds TERMINATE,
\* nothing when none does, state.update(status="error") in the except branch.
RunUpdates ==
    /\ \E r \in {run_check(state, 1, 0), run_check(state, 1, last_messages_window),
                 run_except(state)} :
          /\ state' = r
          /\ call' = [op |-> "run", state |-> state]
    /\ UNCHANGED <<pc, reports, report, test_file, impl_file, chatVars, histVars, selVars>>

NextRoles ==
    \/ TesterCall
    \/ DeveloperCall
    \/ RunnerCall
    \/ ReviewerCall
    \/ RunUpdates

SpecRoles == InitVal /\ [][NextRoles]_vars

(***************************************************************************)
(* SpecOps: the same operations, and a caller's own update of the          *)
(* specification field.                                                    *)
(***************************************************************************)

\* state.update(specification=...) with any requirement text
UpdateSpecification ==
    /\ \E specification \in Specifications :
          \E r \in {StateManager_update(state, [specification |-> specification])} :
              /\ state' = r.state
              /\ call' = [op |-> "update", kwargs |-> [specification |-> specification],
                          state |-> state, raised |-> r.raised]
    /\ UNCHANGED <<pc, reports, report, test_file, impl_file, chatVars, histVars, selVars>>

NextOps ==
    \/ TesterCall
    \/ DeveloperCall
    \/ RunnerCall
    \/ ReviewerCall
    \/ RunUpdates
    \/ UpdateSpecification

SpecOps == InitVal /\ [][NextOps]_vars

(***************************************************************************)
(* SpecSave: save_test_file and save_implementation_file statement by      *)
(* statement, with the process interrupted at any point.  call holds the   *)
(* save under way: its content, the file as it was before, the statement   *)
(* reached and whether the process was interrupted.                        *)
(***************************************************************************)

\* The artifacts a save is called with.
SavedContents(op) ==
    IF op = "save_test_file" THEN {TestsValid1, TestsValid2}
    ELSE {CodeValid1, CodeValid2}

\* open(path, "w"): the file is created, or truncated to no content
open_w ==
    [exists |-> TRUE, content |-> <<>>]

\* No save is under way.
NoSaveUnderWay ==
    \/ call = NoCall
    \/ /\ call.op \in {"save_test_file", "save_implementation_file"}
       /\ call.stage = "closed"
       /\ ~call.interrupted

\* with open(path, "w", encoding="utf-8") as f:
SaveOpen ==
    /\ NoSaveUnderWay
    /\ \E op \in {"save_test_file", "save_implementation_file"} :
        \E content \in SavedContents(op) :
            /\ call' = [op |-> op, content |-> content, stage |-> "opened",
                        interrupted |-> FALSE,
                        file |-> IF op = "save_test_file" THEN test_file ELSE impl_file]
            /\ IF op = "save_test_file"
               THEN test_file' = open_w /\ UNCHANGED impl_file
               ELSE impl_file' = open_w /\ UNCHANGED test_file
    /\ UNCHANGED <<runVars, chatVars, histVars, selVars>>

\* f.write(content): the text is in the buffer of f, not yet in the file
SaveWrite ==
    /\ call # NoCall
    /\ call.op \in {"save_test_file", "save_implementation_file"}
    /\ call.stage = "opened"
    /\ ~call.interrupted
    /\ call' = [call EXCEPT !.stage = "written"]
    /\ UNCHANGED <<test_file, impl_file, runVars, chatVars, histVars, selVars>>

\* the end of the with block: f is flushed and closed
SaveClose ==
    /\ call # NoCall
    /\ call.op \in {"save_test_file", "save_implementation_file"}
    /\ call.stage = "written"
    /\ ~call.interrupted
    /\ call' = [call EXCEPT !.stage = "closed"]
    /\ IF call.op = "save_test_file"
       THEN test_file' = save_file(call.content) /\ UNCHANGED impl_file
       ELSE impl_file' = save_file(call.content) /\ UNCHANGED test_file
    /\ UNCHANGED <<runVars, chatVars, histVars, selVars>>

\* The process is killed: nothing more is executed, the files stay as they are.
Interrupt ==
    /\ call # NoCall
    /\ call.op \in {"save_test_file", "save_implementation_file"}
    /\ ~call.interrupted
    /\ call' = [call EXCEPT !.interrupted = TRUE]
    /\ UNCHANGED <<test_file, impl_file, runVars, chatVars, histVars, selVars>>

NextSave ==
    \/ SaveOpen
    \/ SaveWrite
    \/ SaveClose
    \/ Interrupt

SpecSave == InitGen /\ [][NextSave]_vars

(***************************************************************************)
(* The claims.                                                             *)
(***************************************************************************)

\* The scheduler was called on a chat whose last message is by the Reviewer.
AfterReviewerMessage ==
    /\ sel_out \notin {"pending", "idle"}
    /\ ~sel_in.no_messages
    /\ sel_in.speaker_name = "Reviewer"

\* C1: after any message spoken by the Reviewer the scheduler ends the run
\* (returns None) if and only if the content holds TERMINATE, and selects the
\* Developer for every Reviewer message without it.
C1_ReviewerEndsIffSentinel ==
    AfterReviewerMessage =>
        /\ (sel_out = "None") <=> Contains(sel_in.content, TERMINATE)
        /\ ~Contains(sel_in.content, TERMINATE) => sel_out = "Developer"

\* A test-execution result: an exit indicator and a PASSED, FAILED or ERROR token.
ExecutionResult(content) ==
    /\ Contains(content, EXITCODE)
    /\ \/ Contains(content, PASSED)
       \/ Contains(content, FAILED)
       \/ Contains(content, ERROR)

\* C2: after every test-execution result message of the Executor the next
\* speaker is the Reviewer, and the status of the run state is passed or
\* failed when the Reviewer is entered.
C2_ResultThenReviewerWithStatus ==
    [][(/\ pc = "chat"
        /\ last_msg.name = "Executor"
        /\ ExecutionResult(last_msg.content)
        /\ nmsgs' = nmsgs + 1)
       => (/\ last_msg'.name = "Reviewer"
           /\ state.status \in {"passed", "failed"})]_vars

\* C3: in every run the refactor cycle WRITE_CODE -> EXECUTE_TESTS -> REVIEW is
\* executed at most MAX_ITERATIONS times.
C3_AtMostMaxIterationsCycles ==
    cycles <= MAX_ITERATIONS

\* C4: when the run ends with the budget exhausted, MAX_ITERATIONS refactor
\* cycles done and every execution failing, the returned state has
\* status = failed and iteration = MAX_ITERATIONS.
C4_ExhaustedRunIsFailed ==
    (/\ pc = "done"
     /\ ended = "max_round"
     /\ cycles = MAX_ITERATIONS
     /\ all_failed)
    => (/\ state.status = "failed"
        /\ state.iteration = MAX_ITERATIONS)

\* C5: each time the scheduler goes from a Reviewer message without the
\* sentinel back to the Developer, iteration is incremented by one and
\* feedback is set to that Reviewer report.
C5_ReviewFeedsBack ==
    [][(/\ pc = "chat"
        /\ last_msg.name = "Reviewer"
        /\ ~Contains(last_msg.content, TERMINATE)
        /\ nmsgs' = nmsgs + 1
        /\ last_msg'.name = "Developer")
       => (/\ state'.iteration = state.iteration + 1
           /\ state'.feedback = last_msg.content)]_vars

\* The latest message is by the Reviewer and holds the sentinel.
ReviewerSentinel ==
    /\ nmsgs > 0
    /\ last_msg.name = "Reviewer"
    /\ Contains(last_msg.content, TERMINATE)

\* C6: whenever the Reviewer emits a message holding the sentinel the run ends
\* at that turn (no further turn is taken, whatever the number of rounds left)
\* and run() returns a state whose status is passed.
C6_ReviewerSentinelEndsRun ==
    /\ [][(pc = "chat" /\ ReviewerSentinel) => (pc' = "check" /\ nmsgs' = nmsgs)]_vars
    /\ []((pc = "done" /\ ReviewerSentinel) => state.status = "passed")

\* C7: if an exception is raised inside a turn of the chat, run() aborts: the
\* status is error from then on, the next step is the final report, and no
\* message is appended (no role is invoked) after the fault.
C7_FaultEndsInError ==
    /\ [](ended = "fault" => (state.status = "error" /\ pc \in {"report", "done"}))
    /\ [][ended = "fault" =>
            (/\ pc = "report" /\ pc' = "done"
             /\ reports' = reports + 1
             /\ nmsgs' = nmsgs /\ last_msg' = last_msg
             /\ state' = state)]_vars

\* C7 witness: a run aborted by a fault after several turns has reported.
C7_Witness ==
    /\ ended = "fault"
    /\ pc = "done"
    /\ nmsgs > 2
    /\ state.status = "error"
    /\ reports = 1

\* The latest call got an output (an assistant message) that its validator rejects.
CallRejected ==
    /\ call.op \in {"generate_tests", "generate_code"}
    /\ call.response # <<>>
    /\ IF call.op = "generate_tests"
       THEN validate_tests(Last(call.response)) # "None"
       ELSE validate_implementation(Last(call.response)) # "None"

\* The artifact of the latest call's role: in the state before the call, in
\* the state now, and the file now.
CallPrior == IF call.op = "generate_tests" THEN call.state.tests ELSE call.state.code
CallArtifact == IF call.op = "generate_tests" THEN state.tests ELSE state.code
CallFile == IF call.op = "generate_tests" THEN test_file ELSE impl_file

\* C8: rollback law: if generate_tests (generate_code) gets an output that
\* fails validation while the state holds a prior artifact, it does not raise
\* and afterwards the file and the state field equal the prior artifact.
C8_RollbackLaw ==
    (CallRejected /\ CallPrior # <<>>)
    => (/\ call.raised = "None"
        /\ CallFile = [exists |-> TRUE, content |-> CallPrior]
        /\ CallArtifact = CallPrior)

\* C8 witness: a rejected Tester output was rolled back to the prior tests.
C8_Witness ==
    /\ call.op = "generate_tests"
    /\ CallRejected
    /\ CallPrior # <<>>
    /\ call.raised = "None"
    /\ test_file.content = CallPrior

\* C9: fatal-without-fallback law: if generate_tests (generate_code) gets an
\* output that fails validation while the state holds no prior artifact, it
\* raises, the file is as it was and no field of the state has changed.
C9_FatalWithoutFallback ==
    (CallRejected /\ CallPrior = <<>>)
    => (/\ call.raised # "None"
        /\ CallFile = call.file
        /\ state = call.state)

\* C9 witness: the Developer's first output lacks a docstring and the call raised.
C9_Witness ==
    /\ call.op = "generate_code"
    /\ call.response = <<CodeNoDocstring>>
    /\ CallPrior = <<>>
    /\ call.raised # "None"

\* C10: when a generation role returns no response at all, the call raises,
\* persists nothing and changes nothing, whether or not a prior artifact exists.
C10_NoResponseIsFatal ==
    (call.op \in {"generate_tests", "generate_code"} /\ call.response = <<>>)
    => (/\ call.raised # "None"
        /\ CallFile = call.file
        /\ state = call.state)

\* C11: no report is emitted before run() is done; a run that is done, however
\* its chat ended, has emitted exactly one report, which states the terminal
\* status, the iteration count reached and the locations of the test and
\* implementation artifacts.
C11_OneFinalReport ==
    /\ pc # "done" => (reports = 0 /\ report = NoReport)
    /\ pc = "done" =>
        /\ reports = 1
        /\ report.printed
        /\ report.status = state.status
        /\ report.tests = TEST_FILE
        /\ report.implementation = IMPLEMENTATION_FILE
        /\ "iteration" \in DOMAIN report
        /\ report.iteration = state.iteration

\* The text the latest call of a generation role got as its answer.
CallText == Last(call.response)

NoTestFunction == "Nenhuma funcao de teste encontrada"

\* C12 as stated: for any text without 'def test_', the empty text included,
\* validate_tests returns the NoTestFunction kind; for any text with one it
\* never returns that kind.
C12_NoTestFunctionKind ==
    call.op = "generate_tests" =>
        /\ ~Contains(CallText, DEF_TEST) => call.error = NoTestFunction
        /\ Contains(CallText, DEF_TEST) => call.error # NoTestFunction

\* C12 amended: for any non-empty text without 'def test_' validate_tests
\* returns the NoTestFunction kind, for the empty text it returns the
\* EmptyOutput kind, and for any text with 'def test_' it never returns the
\* NoTestFunction kind.
C12_NoTestFunctionKindNonEmpty ==
    call.op = "generate_tests" =>
        /\ (CallText # <<>> /\ ~Contains(CallText, DEF_TEST))
            => call.error = NoTestFunction
        /\ CallText = <<>> => call.error = "Testes vazios gerados"
        /\ Contains(CallText, DEF_TEST) => call.error # NoTestFunction

\* C12 witness: an answer with an import and a helper but no test function
\* was validated and got the NoTestFunction kind.
C12_Witness ==
    /\ call.op = "generate_tests"
    /\ CallText = join_lines(<<TL_Import, TL_Helper>>)
    /\ call.error = NoTestFunction

\* A blank text: empty or whitespace only.
Blank(text) == strip(text) = <<>>

\* The text binds the implementation module by name in an import.
ImportsModule(text) ==
    Contains(text, FROM_MODULE_IMPORT) \/ Contains(text, IMPORT_MODULE)

\* The 0-based position at which line i of the lines starts in their text.
RECURSIVE LineStart(_, _)
LineStart(lines, i) ==
    IF i = 1 THEN 0 ELSE LineStart(lines, i - 1) + Len(lines[i - 1]) + 1

\* Some line defines a function that is no test and that no @pytest.fixture
\* precedes within the window before the line.
LeaksImplementation(text) ==
    LET lines == split_lines(text)
    IN  \E i \in 1..Len(lines) :
            LET at == LineStart(lines, i)
                from == IF at > fixture_window THEN at - fixture_window ELSE 0
            IN  /\ StartsWith(strip(lines[i]), DEF_SPACE)
                /\ ~StartsWith(strip(lines[i]), DEF_TEST)
                /\ ~Contains(Slice(text, from, at), FIXTURE)

\* C13: validate_tests accepts a text exactly when it is not blank, holds a
\* test-defining construct, imports the implementation module by name and
\* has no non-test function outside the fixture exemption; a blank text is
\* rejected with the EmptyOutput kind; an accepted text is saved verbatim.
C13_AcceptsExactlyValidTests ==
    call.op = "generate_tests" =>
        /\ (call.error = "None") <=>
                (/\ ~Blank(CallText)
                 /\ Contains(CallText, DEF_TEST)
                 /\ ImportsModule(CallText)
                 /\ ~LeaksImplementation(CallText))
        /\ Blank(CallText) => call.error = "Testes vazios gerados"
        /\ call.error = "None" =>
                (/\ call.raised = "None"
                 /\ test_file = [exists |-> TRUE, content |-> CallText]
                 /\ state.tests = CallText)

\* The 0-based positions at which the code defines a function ("def name(").
Functions(code) ==
    {pos \in 0..(Len(code) - 1) : func_pattern_at(code, pos)}

\* The function defined at pos has a docstring delimiter of its own: within
\* the lookahead window and before the next function definition.
OwnDocstring(code, pos) ==
    LET later == {q \in Functions(code) : q > pos}
        next == IF later = {} THEN Len(code)
                ELSE CHOOSE q \in later : \A r \in later : q <= r
        to == IF next < pos + docstring_window THEN next ELSE pos + docstring_window
        own == Slice(code, pos, to)
    IN  Contains(own, DQ3) \/ Contains(own, SQ3)

\* The failure kinds of the conditions an implementation artifact violates.
ViolatedKinds(code) ==
    (IF code = <<>> THEN {"Codigo vazio gerado"} ELSE {})
    \cup (IF Functions(code) = {} THEN {"Nenhuma funcao implementada"} ELSE {})
    \cup (IF Contains(code, DEF_TEST)
          THEN {"Codigo contem testes (deve estar em arquivo separado)"} ELSE {})
    \cup (IF \E pos \in Functions(code) : ~OwnDocstring(code, pos)
          THEN {"Funcao nao tem docstring"} ELSE {})

\* C14: an implementation artifact accepted by validate_implementation is
\* non-empty, defines a function, holds no test-defining construct and every
\* function of it has its own docstring within the lookahead window; an
\* artifact violating one of these is rejected with the kind of a violated one.
C14_AcceptedImplementationIsValid ==
    call.op = "generate_code" =>
        /\ call.error = "None" => ViolatedKinds(CallText) = {}
        /\ ViolatedKinds(CallText) # {} => call.error \in ViolatedKinds(CallText)

\* The latest call is run_tests(state) and pytest ran to its end.
RanPytest ==
    /\ call.op = "run_tests"
    /\ call.with_state
    /\ test_file.exists
    /\ call.process.kind = "completed"

\* The output holds the indicator word, in any letter case.
HasIndicator(output, word) ==
    \E pos \in 0..(Len(output) - 1) : MatchesIgnoreCase(output, pos, word)

\* C15: status derivation by run_tests: for an execution output holding a
\* failing or error indicator the status written is never passed; for an
\* output holding a passing indicator and no failing or error indicator the
\* status written is passed.
C15_StatusDerivation ==
    RanPytest =>
        /\ (HasIndicator(call.result, FAILED) \/ HasIndicator(call.result, ERROR))
            => state.status # "passed"
        /\ (/\ HasIndicator(call.result, PASSED)
            /\ ~HasIndicator(call.result, FAILED)
            /\ ~HasIndicator(call.result, ERROR))
            => state.status = "passed"

\* C15 witness: pytest's output of a passing run gave the status passed.
C15_Witness ==
    /\ RanPytest
    /\ call.process.stdout = join_lines(<<OL_Pytest, OL_Summary>>)
    /\ call.process.stderr = <<>>
    /\ state.status = "passed"

\* The latest call is analyze_failures on an output that is not absent.
Analyzed ==
    /\ call.op = "analyze_failures"
    /\ call.output # <<>>

\* The tests a feedback lists as failing.
ListedFailing(feedback) ==
    LET is_failed_line(line) == line[1] = "failed test"
        lines == SelectSeq(feedback, is_failed_line)
    IN  [i \in 1..Len(lines) |-> lines[i][2]]

\* C16: analyze_failures on a non-absent output never fails and sets status
\* passed if and only if its extraction found no failed and no errored test,
\* otherwise failed; for 'FAILED test_x' and 'PASSED test_y' it extracts one
\* failed and one passed test, sets failed and lists exactly one failing test.
C16_AnalysisStatus ==
    Analyzed =>
        LET results == extract_test_results(call.output)
        IN  /\ call.raised = "None"
            /\ call.with_state =>
                   /\ state.status \in {"passed", "failed"}
                   /\ state.status = "passed"
                        <=> (results.failed = <<>> /\ results.errors = <<>>)
            /\ call.output = join_lines(<<OL_Failed, OL_Passed>>) =>
                   /\ results.failed = <<<<"t", "e", "s", "t", "_", "x">>>>
                   /\ results.passed = <<<<"t", "e", "s", "t", "_", "y">>>>
                   /\ results.errors = <<>>
                   /\ call.with_state => state.status = "failed"
                   /\ ListedFailing(call.result) = <<<<"t", "e", "s", "t", "_", "x">>>>

\* C16 witness: the output with one failed and one passed test was analysed.
C16_Witness ==
    /\ Analyzed
    /\ call.with_state
    /\ call.output = join_lines(<<OL_Failed, OL_Passed>>)
    /\ state.status = "failed"

\* C17: analyze_failures on an absent (empty) output does not fail: it
\* returns the no-output error result and leaves the whole state as it was.
C17_AbsentOutputChangesNothing ==
    (call.op = "analyze_failures" /\ call.output = <<>>) =>
        /\ call.raised = "None"
        /\ call.result = NoOutputProvided
        /\ state = call.state

\* C17 witness: an absent output was analysed after an earlier call had set
\* the status to passed.
C17_Witness ==
    /\ call.op = "analyze_failures"
    /\ call.output = <<>>
    /\ call.with_state
    /\ call.state.status = "passed"
    /\ state.status = "passed"

\* C18: when pytest cannot be launched or the test file is missing,
\* run_tests raises nothing, returns a descriptive error text, and the
\* status of the state is failed after the call.
C18_RunnerErrorIsFailedRound ==
    (/\ call.op = "run_tests"
     /\ call.with_state
     /\ (~test_file.exists \/ call.process.kind # "completed")) =>
        /\ call.raised = "None"
        /\ call.result \in {MissingTestFile, PytestLaunchError, UnexpectedError}
        /\ state.status = "failed"

\* equality of two Python values of any types
Same(a, b) == ToString(a) = ToString(b)

\* the data fields of the state
Fields == DOMAIN TDDState(<<>>)

\* C19: a call of update never fails; afterwards every field named in the call
\* holds the given value whatever its type, every other field holds what it
\* held before, an unknown key has added nothing, and a call that names
\* unknown keys only leaves the whole state as it was.
C19_UpdateSetsKnownDropsUnknown ==
    call.op = "update" =>
        /\ call.raised = "None"
        /\ DOMAIN state = Fields
        /\ \A k \in Fields :
              IF k \in DOMAIN call.kwargs
              THEN Same(state[k], call.kwargs[k])
              ELSE Same(state[k], call.state[k])
        /\ (DOMAIN call.kwargs \cap Fields = {} => Same(state, call.state))

\* C20: get of a field returns the value the field holds, which right after
\* update(f = v) is v for every default, and get changes no field, so that v
\* is returned until f is updated again; get of a name that is no field
\* returns the default.
C20_GetReflectsUpdate ==
    /\ [](call.op = "get" =>
            IF call.key \in Fields
            THEN Same(call.result, state[call.key])
            ELSE Same(call.result, call.default))
    /\ [][(/\ call.op = "update"
           /\ call.raised = "None"
           /\ call'.op = "get"
           /\ call'.key \in DOMAIN call.kwargs \cap Fields)
          => Same(call'.result, call.kwargs[call'.key])]_vars
    /\ [][call'.op = "get" => state' = state]_vars

\* The scheduler names the Executor after a message of the given role.
HandsToExecutor(role) ==
    /\ pc = "chat"
    /\ nmsgs > 0
    /\ last_msg.name = role
    /\ Selected = "Executor"

\* C27: whenever the scheduler hands the turn from the Tester (the Developer)
\* to the Executor, the role's output passes validate_tests
\* (validate_implementation).
C27_ExecutionOnlyAfterValidation ==
    /\ HandsToExecutor("Tester") => validate_tests(last_msg.content) = "None"
    /\ HandsToExecutor("Developer") => validate_implementation(last_msg.content) = "None"

\* The Executor has just reported on the first execution after the Tester's turn.
FirstExecution ==
    /\ pc = "chat"
    /\ last_msg.name = "Tester"
    /\ nmsgs' = nmsgs + 1
    /\ last_msg'.name = "Executor"

\* C28: after the Executor's report on the execution that follows the Tester's
\* turn the scheduler selects the Developer, whatever the report holds.
C28_DeveloperAfterFirstExecution ==
    [][FirstExecution => Selected' = "Developer"]_vars

\* C29: the first role to speak in a run is the Planner, and after a message of
\* the Planner, whatever its content, the scheduler selects the Tester.
C29_PlannerThenTester ==
    /\ [][(nmsgs = 1 /\ nmsgs' = 2) => last_msg'.name = "Planner"]_vars
    /\ []((pc = "chat" /\ nmsgs > 0 /\ last_msg.name = "Planner") => Selected = "Tester")

\* The scheduler was called and has answered.
SchedulerAnswered ==
    sel_out \notin {"pending", "idle"}

\* A message shape the scheduler's flow knows: the empty chat, a message of
\* the Planner or of the Reviewer, a code block of the Tester or of the
\* Developer, the Executor's report of a created file, an execution result.
RecognizedShape ==
    \/ sel_in.no_messages
    \/ sel_in.speaker_name \in {"Planner", "Reviewer"}
    \/ /\ sel_in.speaker_name \in {"Tester", "Developer"}
       /\ Contains(sel_in.content, PYTHON_BLOCK)
    \/ /\ sel_in.speaker_name = "Executor"
       /\ Contains(sel_in.content, EXITCODE_0)
       /\ \/ Contains(sel_in.content, TEST_FILE)
          \/ Contains(sel_in.content, IMPLEMENTATION_FILE)
    \/ ExecutionResult(sel_in.content)

\* C30: the scheduler answers every pair of a last speaker and a content with
\* a decision; for a pair of no recognized shape the decision is the default
\* "auto"; the decision to end the run is given only for a message of the
\* Reviewer that holds the sentinel.
C30_UnrecognizedFallsBack ==
    SchedulerAnswered =>
        /\ sel_out \in Agents \cup {"auto", "None"}
        /\ ~RecognizedShape => sel_out = "auto"
        /\ sel_out = "None" =>
              /\ ~sel_in.no_messages
              /\ sel_in.speaker_name = "Reviewer"
              /\ Contains(sel_in.content, TERMINATE)

\* The scheduler fell back to the default on a Tester message without a code
\* block, and on a message with no speaker.
C30_Witness ==
    /\ SchedulerAnswered
    /\ ~RecognizedShape
    /\ sel_in.speaker_name \in {"Tester", "None"}
    /\ sel_out = "auto"

\* The place of a phase in the order RED, GREEN, REFACTOR (0 for any other value).
PhaseRank(phase) ==
    CASE phase = "red" -> 1
      [] phase = "green" -> 2
      [] phase = "refactor" -> 3
      [] OTHER -> 0

\* C22: in every state whose test_phase is RED or later the tests field is
\* non-empty and names the implementation module.
C22_TestsPresentFromRed ==
    PhaseRank(state.test_phase) >= 1 =>
        /\ state.tests # <<>>
        /\ Contains(state.tests, IMPLEMENTATION_MODULE)

\* C23: in every state whose test_phase is GREEN or later the code field is
\* non-empty and defines at least one function.
C23_CodePresentFromGreen ==
    PhaseRank(state.test_phase) >= 2 =>
        /\ state.code # <<>>
        /\ Functions(state.code) # {}

\* C21: no operation on the run state changes the specification field: it
\* keeps the value the state was created with.
C21_SpecificationImmutable ==
    [][state'.specification = state.specification]_vars

\* C24: test_phase is always one of the phases; a step raises it by at most
\* one place in the order RED, GREEN, REFACTOR, and a step that lowers it is a
\* completed generate_tests, which sets it to RED.
C24_PhaseOnlyForward ==
    [][/\ PhaseRank(state.test_phase) >= 1
       /\ PhaseRank(state'.test_phase) >= 1
       /\ PhaseRank(state'.test_phase) <= PhaseRank(state.test_phase) + 1
       /\ PhaseRank(state'.test_phase) < PhaseRank(state.test_phase) =>
             /\ call'.op = "generate_tests"
             /\ call'.raised = "None"
             /\ state'.test_phase = "red"]_vars

\* The phase went from GREEN back to RED by a regeneration of the tests.
C24_Witness ==
    /\ call.op = "generate_tests"
    /\ call.raised = "None"
    /\ call.state.test_phase = "green"
    /\ state.test_phase = "red"

\* C25: after a generate_tests call that completes, previous_tests is the
\* value the tests field had before the call, whether the output was accepted
\* or rolled back; after a call that raises, previous_tests is as it was.
C25_PreviousTestsIsSnapshot ==
    call.op = "generate_tests" =>
        IF call.raised = "None"
        THEN state.previous_tests = call.state.tests
        ELSE state.previous_tests = call.state.previous_tests

\* A rejected output was rolled back while the snapshot held older tests.
C25_Witness ==
    /\ call.op = "generate_tests"
    /\ CallRejected
    /\ call.raised = "None"
    /\ call.state.tests # <<>>
    /\ call.state.previous_tests # call.state.tests
    /\ state.previous_tests = call.state.tests

\* The file a save writes.
SavedFile == IF call.op = "save_test_file" THEN test_file ELSE impl_file

\* C26: at every point of a save, and so wherever the process is interrupted,
\* the artifact file is either as it was before the save or holds the complete
\* new content.
C26_SaveIsAtomic ==
    (call # NoCall /\ call.op \in {"save_test_file", "save_implementation_file"}) =>
        \/ SavedFile = call.file
        \/ SavedFile = [exists |-> TRUE, content |-> call.content]

\* C31: a run that is done with status passed had a message of the Reviewer
\* that held the sentinel.
C31_PassedOnlyByReviewerSentinel ==
    (pc = "done" /\ state.status = "passed") => reviewer_sentinel

\* The status run_tests writes when pytest prints the given output.
RunnerStatus(output) ==
    run_tests(call.state, TRUE,
              [kind |-> "completed", stdout |-> output, stderr |-> <<>>]).state.status

\* C32: for every execution output for which run_tests writes status failed,
\* analyze_failures on the same output and the same state does not write
\* status passed.
C32_DerivationsAgreeOnFailure ==
    (Analyzed /\ call.with_state /\ RunnerStatus(call.output) = "failed")
        => state.status # "passed"

====
